---- MODULE Spec2Model ----
(***************************************************************************)
(* Session directory of the Telegram bot: the SQLite session store         *)
(* (tables sessions and active_sessions), the session Manager on top of    *)
(* it, and the title generator.  Every Store method is one SQL statement   *)
(* and is modelled as one atomic step; a Manager method is the sequence of *)
(* the Store calls it makes, so two Manager calls interleave between       *)
(* their Store calls.                                                      *)
(***************************************************************************)
EXTENDS Integers, Sequences, FiniteSets, TLC

\* ------------------------------------------------------------- bounds
\* Number of sessions that can ever be created (uuid.New() is called at
\* most this many times).
MaxSessions == 2
\* Last reading of the wall clock.
MaxTime == 1
\* cfg.SessionsPerPage, the limit the handlers pass to ListSessions.
SessionsPerPage == 1
MaxDigits == 9
LargeOffset == 10000000
LargePageSize == 1000000

\* Telegram user ids (update.Message.From.ID).
Users == {1, 2}
\* Updates handled at the same time (one goroutine per update).  A test
\* function is the single goroutine 1.
Procs == {1, 2}
\* Session ids, in the order uuid.New() hands them out.
Ids == 1 .. MaxSessions
\* uuid.New() for an id that was never stored.
UnknownId == MaxSessions + 1
Times == 0 .. MaxTime
\* Page arguments the callers pass.
Offsets == 0 .. MaxSessions
Limits == 1 .. MaxSessions

\* Message texts, as sequences of code points.
Messages == { <<>>, <<"h", "i">> }

VARIABLES
    sessions,         \* table sessions: id -> row
    active_sessions,  \* table active_sessions: set of rows (user_id, session_id)
    nextId,           \* next id uuid.New() returns
    now,              \* last reading of time.Now()
    pc,               \* per goroutine: the Store call it is about to make
    call,             \* per goroutine: arguments and locals of its Manager call
    driver,           \* who calls: the webhook server or a test function
    ret               \* under a test: what the last step returned, if it returned

vars == <<sessions, active_sessions, nextId, now, pc, call, driver, ret>>

\* ------------------------------------------------------------- errors
\* An error is the chain of its messages, outermost first; nil is empty.
OK == <<>>
ErrSessionNotFound == <<"session not found">>
ErrUnauthorized == <<"unauthorized access to session">>
\* Any other error of database/sql (constraint violation, I/O, cancelled
\* context), as the store returns it.
ErrStorage == <<"storage failure">>
\* fmt.Errorf(context + ": %w", err): err with one more message around it
Wrap(context, err) == <<context>> \o err
\* errors.Is(err, target): err or an error it wraps is target
Is(err, target) ==
    \E i \in 1 .. Len(err) : SubSeq(err, i, Len(err)) = target

\* ------------------------------------------------------------- strings
\* A code point is a string: one character, or the name of a code point of
\* more than one byte. These two stand for U+4E16 (three bytes in UTF-8)
\* and for the line separator U+2028.
WideRune == "U+4E16"
LineSeparator == "U+2028"

\* unicode.IsSpace, which strings.TrimSpace and strings.Fields use
IsSpace(c) == c \in {" ", "\t", "\n", "\r", "\f", LineSeparator}

RECURSIVE TrimLeft(_)
TrimLeft(s) ==
    IF s = <<>> THEN <<>>
    ELSE IF IsSpace(Head(s)) THEN TrimLeft(Tail(s)) ELSE s

RECURSIVE TrimRight(_)
TrimRight(s) ==
    IF s = <<>> THEN <<>>
    ELSE IF IsSpace(s[Len(s)]) THEN TrimRight(SubSeq(s, 1, Len(s) - 1)) ELSE s

\* strings.TrimSpace
TrimSpace(s) == TrimRight(TrimLeft(s))

\* strings.ReplaceAll for a one-character pattern
ReplaceAll(s, old, new) == [i \in 1 .. Len(s) |-> IF s[i] = old THEN new ELSE s[i]]

\* strings.Join(strings.Fields(s), " ")
RECURSIVE JoinFields(_)
JoinFields(s) ==
    LET t == TrimLeft(s)
    IN  IF t = <<>> THEN <<>>
        ELSE LET n == CHOOSE k \in 1 .. Len(t) :
                          /\ \A i \in 1 .. k : ~IsSpace(t[i])
                          /\ (k = Len(t) \/ IsSpace(t[k + 1]))
                 rest == JoinFields(SubSeq(t, n + 1, Len(t)))
             IN  IF rest = <<>> THEN SubSeq(t, 1, n)
                 ELSE SubSeq(t, 1, n) \o <<" ">> \o rest

Digit(d) == <<"0", "1", "2", "3", "4", "5", "6", "7", "8", "9">>[d + 1]

\* time.Format("15:04") of a clock that counts minutes
Format1504(t) ==
    LET h == (t \div 60) % 24
        m == t % 60
    IN  <<Digit(h \div 10), Digit(h % 10), ":", Digit(m \div 10), Digit(m % 10)>>

NewSessionPrefix == <<"N", "e", "w", " ", "S", "e", "s", "s", "i", "o", "n", " ">>

TitleShort == 10
TitleMax == 30
Ellipsis == <<".", ".", ".">>

\* A generateTitle that replaces line breaks and does not collapse white space.
generateTitle_NoCollapse(message, t) ==
    LET trimmed == TrimSpace(message)
    IN  IF trimmed = <<>> THEN NewSessionPrefix \o Format1504(t)
        ELSE LET m == ReplaceAll(ReplaceAll(trimmed, "\n", " "), "\r", " ")
                 runeCount == Len(m)
             IN  IF runeCount <= TitleShort THEN m
                 ELSE IF runeCount > TitleMax THEN SubSeq(m, 1, TitleMax) \o Ellipsis
                 ELSE m

\* A generateTitle that truncates from 30 code points on.
generateTitle_From30(message, t) ==
    LET trimmed == TrimSpace(message)
    IN  IF trimmed = <<>> THEN NewSessionPrefix \o Format1504(t)
        ELSE LET m == JoinFields(ReplaceAll(ReplaceAll(trimmed, "\n", " "), "\r", " "))
                 runeCount == Len(m)
             IN  IF runeCount <= TitleShort THEN m
                 ELSE IF runeCount >= TitleMax THEN SubSeq(m, 1, TitleMax) \o Ellipsis
                 ELSE m

\* generateTitle(message), with the clock it reads
generateTitle(message, t) ==
    LET trimmed == TrimSpace(message)
    IN  IF trimmed = <<>> THEN NewSessionPrefix \o Format1504(t)
        ELSE LET m == JoinFields(ReplaceAll(ReplaceAll(trimmed, "\n", " "), "\r", " "))
                 runeCount == Len(m)
             IN  IF runeCount <= TitleShort THEN m
                 ELSE IF runeCount > TitleMax THEN SubSeq(m, 1, TitleMax) \o Ellipsis
                 ELSE m

\* ------------------------------------------------------------- Session
\* NewSession(userID, firstMessage) with the id and the clock it draws
NewSession(id, userID, firstMessage, t) ==
    [ID |-> id, UserID |-> userID, Title |-> generateTitle(firstMessage, t),
     CreatedAt |-> t, UpdatedAt |-> t, LastMessage |-> firstMessage]

\* A nil *Session
NoSession == [ID |-> 0]


Min(a, b) == IF a < b THEN a ELSE b
Max(a, b) == IF a > b THEN a ELSE b

\* ------------------------------------------------------------- SQLiteStore
\* Each operator is one SQL statement on the tables as they are now; a
\* statement that writes gives the error and the tables after it.

\* An INSERT that stores the trimmed message in last_message.
Create_Trimmed(session) ==
    IF session.ID \in DOMAIN sessions
    THEN [err |-> ErrStorage, sessions |-> sessions]
    ELSE [err |-> OK,
          sessions |-> sessions @@
              (session.ID :> [session EXCEPT !.LastMessage = TrimSpace(@)])]

\* INSERT OR REPLACE INTO sessions ...: a row with the same id is replaced.
Create_Replace(session) ==
    [err |-> OK,
     sessions |-> [i \in DOMAIN sessions \cup {session.ID} |->
                      IF i = session.ID THEN session ELSE sessions[i]]]

\* INSERT INTO sessions ...; id is the PRIMARY KEY
Create(session) ==
    IF session.ID \in DOMAIN sessions
    THEN [err |-> ErrStorage, sessions |-> sessions]
    ELSE [err |-> OK, sessions |-> sessions @@ (session.ID :> session)]

\* SELECT ... FROM sessions WHERE id = ?
Get(id) ==
    IF id \in DOMAIN sessions
    THEN [err |-> OK, session |-> sessions[id]]
    ELSE [err |-> ErrSessionNotFound, session |-> NoSession]

\* A SELECT without WHERE user_id = ?: the rows of every user.
RowsOfUser_AllUsers(userID) == DOMAIN sessions

\* WHERE user_id = ?: the rows of one user
RowsOfUser(userID) == {id \in DOMAIN sessions : sessions[id].UserID = userID}

\* ORDER BY updated_at DESC: a comes before b.  Rows with equal updated_at
\* come in the order of the index idx_sessions_user_updated, i.e. by rowid.
OrderedBefore(a, b) ==
    \/ sessions[a].UpdatedAt > sessions[b].UpdatedAt
    \/ (sessions[a].UpdatedAt = sessions[b].UpdatedAt /\ a < b)

\* The rows of S in ORDER BY order
OrderBy(S) ==
    [i \in 1 .. Cardinality(S) |->
        CHOOSE a \in S : Cardinality({b \in S : OrderedBefore(b, a)}) = i - 1]

\* An OFFSET that skips one row too few
ListByUser_OffsetShort(userID, offset, limit) ==
    LET ordered == OrderBy(RowsOfUser(userID))
        from == Max(offset, 1)
        page == SubSeq(ordered, from, Min(from + limit - 1, Len(ordered)))
    IN  [i \in 1 .. Len(page) |-> sessions[page[i]]]

\* SELECT ... WHERE user_id = ? ORDER BY updated_at DESC LIMIT ? OFFSET ?
ListByUser(userID, offset, limit) ==
    LET ordered == OrderBy(RowsOfUser(userID))
        page == SubSeq(ordered, offset + 1, Min(offset + limit, Len(ordered)))
    IN  [i \in 1 .. Len(page) |-> sessions[page[i]]]

\* SELECT COUNT(*) FROM sessions WHERE user_id = ?
CountByUser(userID) == Cardinality(RowsOfUser(userID))

\* A join without WHERE a.user_id = ?: the active session of whichever user
\* has the greatest session id.
GetActiveSession_AnyUser(userID) ==
    LET joined == {a \in active_sessions : a.session_id \in DOMAIN sessions}
    IN  IF joined = {}
        THEN [err |-> ErrSessionNotFound, session |-> NoSession]
        ELSE [err |-> OK,
              session |-> sessions[CHOOSE id \in {a.session_id : a \in joined} :
                                      \A a \in joined : a.session_id <= id]]

\* SELECT s.* FROM sessions s INNER JOIN active_sessions a
\*   ON s.id = a.session_id WHERE a.user_id = ?
GetActiveSession(userID) ==
    LET joined == {a \in active_sessions :
                      a.user_id = userID /\ a.session_id \in DOMAIN sessions}
    IN  IF joined = {}
        THEN [err |-> ErrSessionNotFound, session |-> NoSession]
        ELSE [err |-> OK,
              session |-> sessions[(CHOOSE a \in joined : TRUE).session_id]]

\* ON CONFLICT(user_id) DO NOTHING: the first pointer of a user stays.
SetActiveSession_DoNothing(userID, sessionID) ==
    IF sessionID \notin DOMAIN sessions
    THEN [err |-> ErrStorage, active_sessions |-> active_sessions]
    ELSE [err |-> OK,
          active_sessions |->
              IF \E a \in active_sessions : a.user_id = userID
              THEN active_sessions
              ELSE active_sessions
                       \cup {[user_id |-> userID, session_id |-> sessionID]}]

\* A table active_sessions without primary key: every write adds a row.
SetActiveSession_NoKey(userID, sessionID) ==
    IF sessionID \notin DOMAIN sessions
    THEN [err |-> ErrStorage, active_sessions |-> active_sessions]
    ELSE [err |-> OK,
          active_sessions |->
              active_sessions \cup {[user_id |-> userID, session_id |-> sessionID]}]

\* An INSERT without ON CONFLICT: the write for a user that has a pointer
\* fails on the primary key.
SetActiveSession_InsertOnly(userID, sessionID) ==
    IF sessionID \notin DOMAIN sessions
           \/ \E a \in active_sessions : a.user_id = userID
    THEN [err |-> ErrStorage, active_sessions |-> active_sessions]
    ELSE [err |-> OK,
          active_sessions |->
              active_sessions \cup {[user_id |-> userID, session_id |-> sessionID]}]

\* INSERT INTO active_sessions ... ON CONFLICT(user_id) DO UPDATE SET
\* session_id = excluded.session_id; session_id REFERENCES sessions(id)
SetActiveSession(userID, sessionID) ==
    IF sessionID \notin DOMAIN sessions
    THEN [err |-> ErrStorage, active_sessions |-> active_sessions]
    ELSE [err |-> OK,
          active_sessions |->
              {a \in active_sessions : a.user_id # userID}
                  \cup {[user_id |-> userID, session_id |-> sessionID]}]

\* A ClearActiveSession that deletes nothing.
ClearActiveSession_KeepsRow(userID) ==
    [err |-> OK, active_sessions |-> active_sessions]

\* DELETE FROM active_sessions, without the WHERE: every user's pointer goes.
ClearActiveSession_AllUsers(userID) ==
    [err |-> OK, active_sessions |-> {}]

\* DELETE FROM active_sessions WHERE user_id = ?
ClearActiveSession(userID) ==
    [err |-> OK,
     active_sessions |-> {a \in active_sessions : a.user_id # userID}]

\* An UPDATE that also sets user_id and created_at from the supplied Session.
Update_AllColumns(session) ==
    IF session.ID \notin DOMAIN sessions
    THEN [err |-> ErrSessionNotFound, sessions |-> sessions]
    ELSE [err |-> OK, sessions |-> [sessions EXCEPT ![session.ID] = session]]

\* An upsert in place of the UPDATE: a session that is not stored is inserted.
Update_Upsert(session) ==
    IF session.ID \notin DOMAIN sessions
    THEN [err |-> OK, sessions |-> sessions @@ (session.ID :> session)]
    ELSE [err |-> OK,
          sessions |-> [sessions EXCEPT ![session.ID] =
                           [@ EXCEPT !.Title = session.Title,
                                     !.UpdatedAt = session.UpdatedAt,
                                     !.LastMessage = session.LastMessage]]]

\* UPDATE sessions SET title = ?, updated_at = ?, last_message = ? WHERE id = ?
Update(session) ==
    IF session.ID \notin DOMAIN sessions
    THEN [err |-> ErrSessionNotFound, sessions |-> sessions]
    ELSE [err |-> OK,
          sessions |-> [sessions EXCEPT ![session.ID] =
                           [@ EXCEPT !.Title = session.Title,
                                     !.UpdatedAt = session.UpdatedAt,
                                     !.LastMessage = session.LastMessage]]]

\* A Delete on a schema without ON DELETE CASCADE: the pointers stay.
Delete_NoCascade(id) ==
    IF id \notin DOMAIN sessions
    THEN [err |-> ErrSessionNotFound, sessions |-> sessions,
          active_sessions |-> active_sessions]
    ELSE [err |-> OK,
          sessions |-> [i \in DOMAIN sessions \ {id} |-> sessions[i]],
          active_sessions |-> active_sessions]

\* DELETE FROM sessions WHERE id = ?; the rows of active_sessions that
\* reference the session go with it (ON DELETE CASCADE).
Delete(id) ==
    IF id \notin DOMAIN sessions
    THEN [err |-> ErrSessionNotFound, sessions |-> sessions,
          active_sessions |-> active_sessions]
    ELSE [err |-> OK,
          sessions |-> [i \in DOMAIN sessions \ {id} |-> sessions[i]],
          active_sessions |-> {a \in active_sessions : a.session_id # id}]

\* The row of active_sessions of a user, 0 when there is none.
ActivePointer(userID) ==
    IF \E a \in active_sessions : a.user_id = userID
    THEN (CHOOSE a \in active_sessions : a.user_id = userID).session_id
    ELSE 0

\* ------------------------------------------------------------- Manager
\* The frame of a Manager call: its arguments, locals and results, and the
\* handler that made the call ("" when a test calls the Manager itself).
Frame(op, userID) ==
    [op |-> op, userID |-> userID, sessionID |-> 0, message |-> <<>>,
     offset |-> 0, limit |-> 0, err |-> OK, session |-> NoSession,
     sessions |-> <<>>, hasMore |-> FALSE, closed |-> FALSE,
     handler |-> "", hasPrev |-> FALSE, keyboard |-> <<>>,
     time |-> 0, maxLen |-> 0, text |-> <<>>,
     args |-> <<>>, config |-> <<>>, ctx |-> "Background"]

Idle == "idle"
\* No call in progress; no value returned.
NoCall == Frame("none", 0)

\* What a step of a Manager method comes to: the frame, and the label of the
\* next Store call or Idle when the method returns.
Outcome(next, f) == [next |-> next, frame |-> f]

\* Manager.ListSessions after m.store.ListByUser gave r
ListSessionsAfterList(f, r) ==
    IF r.err # OK
    THEN Outcome(Idle, [f EXCEPT !.err = Wrap("failed to list sessions", r.err)])
    ELSE Outcome("ListSessions_Count", [f EXCEPT !.sessions = r.sessions])

\* Manager.ListSessions up to m.store.ListByUser
ListSessionsList(userID, offset, limit) ==
    ListSessionsAfterList(
        [Frame("ListSessions", userID) EXCEPT !.offset = offset, !.limit = limit],
        [err |-> OK, sessions |-> ListByUser(userID, offset, limit)])

\* hasMore computed with <= in place of <
ListSessionsCount_Inclusive(f) ==
    LET total == CountByUser(f.userID)
    IN  Outcome(Idle, [f EXCEPT !.hasMore = (f.offset + f.limit <= total)])

\* Manager.ListSessions when m.store.CountByUser fails with err
ListSessionsCountFailed(f, err) ==
    Outcome(Idle, [f EXCEPT !.err = Wrap("failed to count sessions", err),
                            !.sessions = <<>>])

\* Manager.ListSessions from m.store.CountByUser on
ListSessionsCount(f) ==
    LET total == CountByUser(f.userID)
    IN  Outcome(Idle, [f EXCEPT !.hasMore = (f.offset + f.limit < total)])

\* A SwitchSession without the ownership check
SwitchSessionGet_NoOwnerCheck(userID, sessionID) ==
    LET f == [Frame("SwitchSession", userID) EXCEPT !.sessionID = sessionID]
        r == Get(sessionID)
    IN  IF r.err # OK
        THEN Outcome(Idle, [f EXCEPT !.err = Wrap("failed to get session", r.err)])
        ELSE Outcome("SwitchSession_SetActive", [f EXCEPT !.session = r.session])

\* Manager.SwitchSession after m.store.Get gave r: the ownership check
SwitchSessionAfterGet(f, r) ==
    IF r.err # OK
    THEN Outcome(Idle, [f EXCEPT !.err = Wrap("failed to get session", r.err)])
    ELSE IF r.session.UserID # f.userID
         THEN Outcome(Idle, [f EXCEPT !.err = ErrUnauthorized])
         ELSE Outcome("SwitchSession_SetActive", [f EXCEPT !.session = r.session])

\* Manager.SwitchSession up to the ownership check
SwitchSessionGet(userID, sessionID) ==
    SwitchSessionAfterGet(
        [Frame("SwitchSession", userID) EXCEPT !.sessionID = sessionID],
        Get(sessionID))

\* A Manager that drops the error of m.store.SetActiveSession
AfterSetActive_ErrorDropped(f, r) == Outcome(Idle, f)

\* Manager.SwitchSession and Manager.CreateSession after
\* m.store.SetActiveSession gave r
AfterSetActive(f, r) ==
    IF r.err # OK
    THEN Outcome(Idle, [f EXCEPT !.err = Wrap("failed to set active session", r.err),
                                 !.session = NoSession])
    ELSE Outcome(Idle, f)

\* A CreateSession that goes on to set the pointer whatever m.store.Create gave
AfterCreate_ErrorDropped(f, session, r) ==
    Outcome("CreateSession_SetActive",
            [f EXCEPT !.session = session, !.sessionID = session.ID])

\* Manager.CreateSession after m.store.Create(session) gave r
AfterCreate(f, session, r) ==
    IF r.err # OK
    THEN Outcome(Idle, [f EXCEPT !.err = Wrap("failed to create session", r.err)])
    ELSE Outcome("CreateSession_SetActive",
                 [f EXCEPT !.session = session, !.sessionID = session.ID])

\* A GetOrCreateActiveSession that creates a session on every call
GetOrCreateActiveSessionGet_AlwaysCreate(userID, message) ==
    Outcome("CreateSession_Create",
            [Frame("GetOrCreateActiveSession", userID) EXCEPT !.message = message])

\* A GetOrCreateActiveSession that creates a session only when none is active
GetOrCreateActiveSessionAfterGet_OnlyNotFound(f, r) ==
    IF r.err = OK
    THEN Outcome(Idle, [f EXCEPT !.session = r.session, !.sessionID = r.session.ID])
    ELSE IF r.err = ErrSessionNotFound
         THEN Outcome("CreateSession_Create", f)
         ELSE Outcome(Idle, [f EXCEPT !.err = Wrap("failed to get active session", r.err)])

\* Manager.GetOrCreateActiveSession after m.store.GetActiveSession gave r
GetOrCreateActiveSessionAfterGet(f, r) ==
    IF r.err = OK
    THEN Outcome(Idle, [f EXCEPT !.session = r.session, !.sessionID = r.session.ID])
    ELSE Outcome("CreateSession_Create", f)

\* Manager.GetOrCreateActiveSession up to the fallback
GetOrCreateActiveSessionGet(userID, message) ==
    GetOrCreateActiveSessionAfterGet(
        [Frame("GetOrCreateActiveSession", userID) EXCEPT !.message = message],
        GetActiveSession(userID))

\* Manager.CloseActiveSession after the lookup of the active session gave r
CloseActiveSessionAfterGet(f, r) ==
    IF r.err = ErrSessionNotFound THEN Outcome(Idle, f)
    ELSE IF r.err # OK
         THEN Outcome(Idle, [f EXCEPT !.err = Wrap("failed to get active session", r.err)])
         ELSE Outcome("CloseActiveSession_Clear",
                      [f EXCEPT !.session = r.session, !.sessionID = r.session.ID])

\* Manager.CloseActiveSession up to the lookup of the active session
CloseActiveSessionGet(userID) ==
    CloseActiveSessionAfterGet(Frame("CloseActiveSession", userID),
                               GetActiveSession(userID))

\* Manager.CloseActiveSession after m.store.ClearActiveSession gave r
AfterClear(f, r) ==
    IF r.err # OK
    THEN Outcome(Idle, [f EXCEPT !.err = Wrap("failed to clear active session", r.err),
                                 !.session = NoSession])
    ELSE Outcome(Idle, [f EXCEPT !.closed = TRUE])

\* ------------------------------------------------------------- state machine
Server == "server"
Test == "test"
Workers == "workers"

Labels == {Idle, "ListSessions_Count", "SwitchSession_SetActive",
           "CreateSession_Create", "CreateSession_SetActive",
           "CloseActiveSession_Clear"}

TypeOK ==
    /\ DOMAIN sessions \subseteq Ids
    /\ \A id \in DOMAIN sessions : sessions[id].ID = id
    /\ \A a \in active_sessions : a.user_id \in Users /\ a.session_id \in Ids
    /\ nextId \in 1 .. MaxSessions + 1
    /\ now \in Times
    /\ pc \in [Procs -> Labels \cup {"done"}]
    /\ DOMAIN call = Procs
    /\ \A p \in Procs : pc[p] = Idle <=> call[p] = NoCall
    /\ driver \in {Server, Test, Workers}
    /\ driver = Server => ret = NoCall

\* The tables are empty and no update is being handled.
InitStore ==
    /\ sessions = <<>>
    /\ active_sessions = {}
    /\ nextId = 1
    /\ now = 0
    /\ pc = [p \in Procs |-> Idle]
    /\ call = [p \in Procs |-> NoCall]
    /\ ret = NoCall

\* main: the webhook server
Init == InitStore /\ driver = Server

\* go test: a test function
InitTest == InitStore /\ driver = Test

\* A test that starts one goroutine per call and waits for all of them
InitWorkers == InitStore /\ driver = Workers

\* Goroutine p may take a new update.
Ready(p) == pc[p] = Idle /\ (driver = Test => p = 1)

\* Goroutine p goes where the outcome o says: on to the next Store call, or
\* back to its caller with the frame. A worker goroutine makes one call, keeps
\* what the call returned, and is done.
Do(p, o) ==
    /\ pc' = [pc EXCEPT ![p] = IF o.next = Idle /\ driver = Workers THEN "done"
                               ELSE o.next]
    /\ call' = [call EXCEPT ![p] = IF o.next = Idle /\ driver # Workers THEN NoCall
                                   ELSE o.frame]
    /\ ret' = IF o.next = Idle /\ driver = Test THEN o.frame ELSE NoCall
    /\ UNCHANGED driver

\* Manager.ListSessions: m.store.ListByUser
ListSessions(p, userID, offset, limit) ==
    /\ Ready(p)
    /\ Do(p, ListSessionsList(userID, offset, limit))
    /\ UNCHANGED <<sessions, active_sessions, nextId, now>>

\* Manager.ListSessions: m.store.CountByUser and hasMore
ListSessions_Count(p) ==
    /\ pc[p] = "ListSessions_Count"
    /\ Do(p, ListSessionsCount(call[p]))
    /\ UNCHANGED <<sessions, active_sessions, nextId, now>>

\* Manager.SwitchSession: m.store.Get and the ownership check
SwitchSession(p, userID, sessionID) ==
    /\ Ready(p)
    /\ Do(p, SwitchSessionGet(userID, sessionID))
    /\ UNCHANGED <<sessions, active_sessions, nextId, now>>

\* Manager.SwitchSession: m.store.SetActiveSession
SwitchSession_SetActive(p) ==
    /\ pc[p] = "SwitchSession_SetActive"
    /\ LET r == SetActiveSession(call[p].userID, call[p].sessionID)
       IN  /\ active_sessions' = r.active_sessions
           /\ Do(p, AfterSetActive(call[p], r))
    /\ UNCHANGED <<sessions, nextId, now>>

\* Manager.CreateSession: NewSession and m.store.Create, for the frame f.
\* uuid.New() gives nextId; time.Now() reads t, not before the last reading.
CreateSession_Create(p, f) ==
    /\ nextId <= MaxSessions
    /\ \E t \in now .. MaxTime :
          LET session == NewSession(nextId, f.userID, f.message, t)
              r == Create(session)
          IN  /\ now' = t
              /\ sessions' = r.sessions
              /\ Do(p, AfterCreate(f, session, r))
    /\ nextId' = nextId + 1
    /\ UNCHANGED active_sessions

\* Manager.CreateSession, called by a handler or a test
CreateSession(p, userID, message) ==
    /\ Ready(p)
    /\ CreateSession_Create(p, [Frame("CreateSession", userID) EXCEPT !.message = message])

\* Manager.CreateSession: m.store.SetActiveSession
CreateSession_SetActive(p) ==
    /\ pc[p] = "CreateSession_SetActive"
    /\ LET r == SetActiveSession(call[p].userID, call[p].sessionID)
       IN  /\ active_sessions' = r.active_sessions
           /\ Do(p, AfterSetActive(call[p], r))
    /\ UNCHANGED <<sessions, nextId, now>>

\* Manager.GetOrCreateActiveSession: m.store.GetActiveSession
GetOrCreateActiveSession(p, userID, message) ==
    /\ Ready(p)
    /\ Do(p, GetOrCreateActiveSessionGet(userID, message))
    /\ UNCHANGED <<sessions, active_sessions, nextId, now>>

\* Manager.GetOrCreateActiveSession: return m.CreateSession(ctx, userID, message)
GetOrCreateActiveSession_Create(p) ==
    /\ pc[p] = "CreateSession_Create"
    /\ CreateSession_Create(p, call[p])

\* Manager.CloseActiveSession: the lookup of the active session
CloseActiveSession(p, userID) ==
    /\ Ready(p)
    /\ Do(p, CloseActiveSessionGet(userID))
    /\ UNCHANGED <<sessions, active_sessions, nextId, now>>

\* Manager.CloseActiveSession: m.store.ClearActiveSession
CloseActiveSession_Clear(p) ==
    /\ pc[p] = "CloseActiveSession_Clear"
    /\ LET r == ClearActiveSession(call[p].userID)
       IN  /\ active_sessions' = r.active_sessions
           /\ Do(p, AfterClear(call[p], r))
    /\ UNCHANGED <<sessions, nextId, now>>

\* The Manager methods, as the handlers and the Manager tests call them.
Next ==
    \/ \E p \in Procs, u \in Users :
          \/ \E offset \in Offsets : ListSessions(p, u, offset, SessionsPerPage)
          \/ \E id \in Ids \cup {UnknownId} : SwitchSession(p, u, id)
          \/ \E m \in Messages : CreateSession(p, u, m)
          \/ \E m \in Messages : GetOrCreateActiveSession(p, u, m)
          \/ CloseActiveSession(p, u)
    \/ \E p \in Procs :
          \/ ListSessions_Count(p)
          \/ SwitchSession_SetActive(p)
          \/ CreateSession_SetActive(p)
          \/ GetOrCreateActiveSession_Create(p)
          \/ CloseActiveSession_Clear(p)

\* The webhook server: updates are handled concurrently.
Spec == Init /\ [][Next]_vars

\* A test function calling the Manager: one call at a time, results observed.
SpecTest == InitTest /\ [][Next]_vars

\* ------------------------------------------------------------- failing Store calls
\* A Store call that fails for a reason of the database (I/O error, closed
\* connection, cancelled context): the statement is rolled back, the tables
\* stay as they are, and the Manager gets an error that is neither
\* ErrSessionNotFound nor ErrUnauthorized.

\* Manager.ListSessions: m.store.CountByUser fails
ListSessions_CountFails(p) ==
    /\ pc[p] = "ListSessions_Count"
    /\ Do(p, ListSessionsCountFailed(call[p], ErrStorage))
    /\ UNCHANGED <<sessions, active_sessions, nextId, now>>

\* Manager.SwitchSession: m.store.SetActiveSession fails
SwitchSession_SetActiveFails(p) ==
    /\ pc[p] = "SwitchSession_SetActive"
    /\ Do(p, AfterSetActive(call[p], [err |-> ErrStorage,
                                      active_sessions |-> active_sessions]))
    /\ UNCHANGED <<sessions, active_sessions, nextId, now>>

\* Manager.CreateSession: m.store.Create fails, for the frame f. The uuid
\* of the session that was not stored is never seen again.
CreateSession_CreateFails(p, f) ==
    /\ Do(p, AfterCreate(f, NewSession(nextId, f.userID, f.message, now),
                         [err |-> ErrStorage, sessions |-> sessions]))
    /\ UNCHANGED <<sessions, active_sessions, nextId, now>>

\* Manager.CreateSession with a failing m.store.Create
CreateSession_Fails(p, userID, message) ==
    /\ Ready(p)
    /\ CreateSession_CreateFails(p, [Frame("CreateSession", userID) EXCEPT !.message = message])

\* Manager.CreateSession: m.store.SetActiveSession fails
CreateSession_SetActiveFails(p) ==
    /\ pc[p] = "CreateSession_SetActive"
    /\ Do(p, AfterSetActive(call[p], [err |-> ErrStorage,
                                      active_sessions |-> active_sessions]))
    /\ UNCHANGED <<sessions, active_sessions, nextId, now>>

\* Manager.GetOrCreateActiveSession: m.store.GetActiveSession fails
GetOrCreateActiveSession_GetFails(p, userID, message) ==
    /\ Ready(p)
    /\ Do(p, GetOrCreateActiveSessionAfterGet(
                [Frame("GetOrCreateActiveSession", userID) EXCEPT !.message = message],
                [err |-> ErrStorage, session |-> NoSession]))
    /\ UNCHANGED <<sessions, active_sessions, nextId, now>>

\* Manager.GetOrCreateActiveSession: m.store.Create of the fallback fails
GetOrCreateActiveSession_CreateFails(p) ==
    /\ pc[p] = "CreateSession_Create"
    /\ CreateSession_CreateFails(p, call[p])

\* Manager.CloseActiveSession: m.store.ClearActiveSession fails
CloseActiveSession_ClearFails(p) ==
    /\ pc[p] = "CloseActiveSession_Clear"
    /\ Do(p, AfterClear(call[p], [err |-> ErrStorage,
                                  active_sessions |-> active_sessions]))
    /\ UNCHANGED <<sessions, active_sessions, nextId, now>>

\* The continuations of a Manager call whose Store call fails.
StepFails(p) ==
    \/ ListSessions_CountFails(p)
    \/ SwitchSession_SetActiveFails(p)
    \/ CreateSession_SetActiveFails(p)
    \/ GetOrCreateActiveSession_CreateFails(p)
    \/ CloseActiveSession_ClearFails(p)

\* CreateSession and GetOrCreateActiveSession over a Store whose calls may fail.
NextFaults ==
    \/ \E p \in Procs, u \in Users, m \in Messages :
          \/ CreateSession(p, u, m)
          \/ CreateSession_Fails(p, u, m)
          \/ GetOrCreateActiveSession(p, u, m)
          \/ GetOrCreateActiveSession_GetFails(p, u, m)
    \/ \E p \in Procs :
          \/ CreateSession_SetActive(p)
          \/ CreateSession_SetActiveFails(p)
          \/ GetOrCreateActiveSession_Create(p)
          \/ GetOrCreateActiveSession_CreateFails(p)

\* A test function calling the Manager over a Store whose calls may fail.
SpecFaults == InitTest /\ [][NextFaults]_vars

\* A Manager call with a context that is already cancelled: database/sql
\* returns ctx.Err() from ExecContext and QueryContext before the statement
\* runs, so the first Store call of the method fails and no table changes.
CancelledCall(p, userID) ==
    /\ Ready(p)
    /\ LET ctx(op) == [Frame(op, userID) EXCEPT !.ctx = "Canceled"]
           r == [err |-> ErrStorage, session |-> NoSession, sessions |-> <<>>]
       IN  \/ \E offset \in Offsets, limit \in Limits :
                 Do(p, ListSessionsAfterList(
                          [ctx("ListSessions") EXCEPT !.offset = offset, !.limit = limit], r))
           \/ \E id \in Ids \cup {UnknownId} :
                 Do(p, SwitchSessionAfterGet(
                          [ctx("SwitchSession") EXCEPT !.sessionID = id], r))
           \/ \E m \in Messages :
                 Do(p, AfterCreate([ctx("CreateSession") EXCEPT !.message = m],
                                   NewSession(nextId, userID, m, now), r))
           \/ \E m \in Messages :
                 Do(p, GetOrCreateActiveSessionAfterGet(
                          [ctx("GetOrCreateActiveSession") EXCEPT !.message = m], r))
           \/ Do(p, CloseActiveSessionAfterGet(ctx("CloseActiveSession"), r))
    /\ UNCHANGED <<sessions, active_sessions, nextId, now>>

\* Manager calls, some of them with a cancelled context; the fallback
\* CreateSession of GetOrCreateActiveSession runs under the context of the call.
NextCancelled ==
    \/ \E p \in Procs, u \in Users :
          \/ CreateSession(p, u, <<>>)
          \/ \E id \in Ids \cup {UnknownId} : SwitchSession(p, u, id)
          \/ CloseActiveSession(p, u)
          \/ CancelledCall(p, u)
    \/ \E p \in Procs :
          \/ CreateSession_SetActive(p)
          \/ SwitchSession_SetActive(p)
          \/ CloseActiveSession_Clear(p)
          \/ call[p].ctx = "Canceled" /\ GetOrCreateActiveSession_CreateFails(p)

\* A test function calling the Manager, with ctx cancelled for some calls
SpecCancelled == InitTest /\ [][NextCancelled]_vars

\* ------------------------------------------------------------- action strings
\* Strings are sequences of characters.
HexDigits == <<"0", "1", "2", "3", "4", "5", "6", "7", "8", "9", "a", "b", "c", "d", "e", "f">>
UpperHexDigits == <<"0", "1", "2", "3", "4", "5", "6", "7", "8", "9", "A", "B", "C", "D", "E", "F">>
LowerLetters == <<"a", "b", "c", "d", "e", "f", "g", "h", "i", "j", "k", "l", "m", "n", "o", "p", "q", "r", "s", "t", "u", "v", "w", "x", "y", "z">>
UpperLetters == <<"A", "B", "C", "D", "E", "F", "G", "H", "I", "J", "K", "L", "M", "N", "O", "P", "Q", "R", "S", "T", "U", "V", "W", "X", "Y", "Z">>

\* unicode.ToLower on a letter of ASCII
ToLower(c) ==
    IF \E i \in 1 .. 26 : UpperLetters[i] = c
    THEN LowerLetters[CHOOSE i \in 1 .. 26 : UpperLetters[i] = c]
    ELSE c

\* strings.EqualFold(s, t) on ASCII
EqualFold(s, t) ==
    /\ Len(s) = Len(t)
    /\ \A i \in 1 .. Len(s) : ToLower(s[i]) = ToLower(t[i])

\* The 16 bytes of the uuid of a session, as 32 half-bytes. uuid.New() draws
\* them at random, with version 4 and the RFC 4122 variant; the sessions of
\* the model are numbered, and the number is the last byte.
UUIDBytes(id) ==
    [i \in 1 .. 32 |-> IF i = 13 THEN 4
                       ELSE IF i = 17 THEN 8
                       ELSE IF i = 31 THEN (id \div 16) % 16
                       ELSE IF i = 32 THEN id % 16
                       ELSE 0]

\* The session with these bytes; UnknownId for a uuid that was never handed out.
UUIDFromBytes(b) ==
    IF \E id \in Ids : UUIDBytes(id) = b
    THEN CHOOSE id \in Ids : UUIDBytes(id) = b
    ELSE UnknownId

\* UUID.String(): xxxxxxxx-xxxx-xxxx-xxxx-xxxxxxxxxxxx in lower case
UUIDString(id) ==
    LET h == [i \in 1 .. 32 |-> HexDigits[UUIDBytes(id)[i] + 1]]
    IN  SubSeq(h, 1, 8) \o <<"-">> \o SubSeq(h, 9, 12) \o <<"-">> \o SubSeq(h, 13, 16)
        \o <<"-">> \o SubSeq(h, 17, 20) \o <<"-">> \o SubSeq(h, 21, 32)

IsHex(c) == \E v \in 1 .. 16 : HexDigits[v] = c \/ UpperHexDigits[v] = c
HexValue(c) == (CHOOSE v \in 1 .. 16 : HexDigits[v] = c \/ UpperHexDigits[v] = c) - 1

ErrInvalidUUID == <<"invalid UUID format">>
ErrInvalidUUIDLength == <<"invalid UUID length">>
ErrInvalidURNPrefix == <<"invalid urn prefix">>
UUIDLen == 36
URNPrefix == <<"u", "r", "n", ":", "u", "u", "i", "d", ":">>

\* uuid.Parse of the 32 hexadecimal digits h
ParseHex(h) ==
    IF \A i \in 1 .. 32 : IsHex(h[i])
    THEN [err |-> OK, id |-> UUIDFromBytes([i \in 1 .. 32 |-> HexValue(h[i])])]
    ELSE [err |-> ErrInvalidUUID, id |-> 0]

\* uuid.Parse of the 36 characters s
ParseCanonical(s) ==
    IF s[9] # "-" \/ s[14] # "-" \/ s[19] # "-" \/ s[24] # "-"
    THEN [err |-> ErrInvalidUUID, id |-> 0]
    ELSE ParseHex(SubSeq(s, 1, 8) \o SubSeq(s, 10, 13) \o SubSeq(s, 15, 18)
                  \o SubSeq(s, 20, 23) \o SubSeq(s, 25, 36))

\* uuid.Parse(s): the canonical form, the same after urn:uuid: or in braces,
\* or 32 hexadecimal digits
Parse(s) ==
    IF Len(s) = UUIDLen THEN ParseCanonical(s)
    ELSE IF Len(s) = UUIDLen + 9
    THEN IF EqualFold(SubSeq(s, 1, 9), URNPrefix)
         THEN ParseCanonical(SubSeq(s, 10, Len(s)))
         ELSE [err |-> ErrInvalidURNPrefix, id |-> 0]
    ELSE IF Len(s) = UUIDLen + 2
    THEN IF s[1] = "{" /\ s[Len(s)] = "}"
         THEN ParseCanonical(SubSeq(s, 2, Len(s) - 1))
         ELSE [err |-> ErrInvalidUUID, id |-> 0]
    ELSE IF Len(s) = 32 THEN ParseHex(s)
    ELSE [err |-> ErrInvalidUUIDLength, id |-> 0]

RECURSIVE Digits(_)
\* The decimal digits of n >= 0
Digits(n) == IF n < 10 THEN <<Digit(n)>> ELSE Digits(n \div 10) \o <<Digit(n % 10)>>

\* fmt.Sprintf("%d", n)
Itoa(n) == IF n < 0 THEN <<"-">> \o Digits(0 - n) ELSE Digits(n)

IsDigit(c) == \E d \in 0 .. 9 : Digit(d) = c
DigitValue(c) == CHOOSE d \in 0 .. 9 : Digit(d) = c

RECURSIVE DecimalValue(_)
\* The number written by the digits s
DecimalValue(s) ==
    IF s = <<>> THEN 0
    ELSE 10 * DecimalValue(SubSeq(s, 1, Len(s) - 1)) + DigitValue(s[Len(s)])

ErrSyntax == <<"strconv.Atoi: invalid syntax">>
ErrRange == <<"strconv.Atoi: value out of range">>

\* strconv.Atoi(s): an optional sign and decimal digits. The integers of the
\* model have MaxDigits digits.
Atoi(s) ==
    LET signed == s # <<>> /\ s[1] \in {"+", "-"}
        digits == IF signed THEN SubSeq(s, 2, Len(s)) ELSE s
    IN  IF digits = <<>> \/ \E i \in 1 .. Len(digits) : ~IsDigit(digits[i])
        THEN [err |-> ErrSyntax, n |-> 0]
        ELSE IF Len(digits) > MaxDigits
        THEN [err |-> ErrRange, n |-> 0]
        ELSE [err |-> OK,
              n |-> IF signed /\ s[1] = "-" THEN 0 - DecimalValue(digits)
                    ELSE DecimalValue(digits)]

OpenPrefix == <<"o", "p", "e", "n", "_", "s", "_">>
PagePrefix == <<"p", "a", "g", "e", "_", "s", "e", "s", "s", "i", "o", "n", "s", "_">>
\* The navigation tag of an earlier version of the keyboard
MorePrefix == <<"m", "o", "r", "e", "_", "s", "e", "s", "s", "i", "o", "n", "s", "_">>
OpenPrefixLen == 7
PagePrefixLen == 14

\* A session button that carries the id twice
OpenCallbackData_Twice(id) == OpenPrefix \o UUIDString(id) \o UUIDString(id)

\* fmt.Sprintf("open_s_%s", s.ID.String())
OpenCallbackData(id) == OpenPrefix \o UUIDString(id)

\* A navigation button that carries the tag of the earlier version
PageCallbackData_MoreSessions(offset) == MorePrefix \o Itoa(offset)

\* fmt.Sprintf("page_sessions_%d", offset)
PageCallbackData(offset) == PagePrefix \o Itoa(offset)

\* ------------------------------------------------------------- keyboard
prevPageButtonText == <<"P", "r", "e", "v">>
nextPageButtonText == <<"N", "e", "x", "t">>

MonthNames == <<<<"J", "a", "n">>, <<"F", "e", "b">>, <<"M", "a", "r">>, <<"A", "p", "r">>, <<"M", "a", "y">>, <<"J", "u", "n">>, <<"J", "u", "l">>, <<"A", "u", "g">>, <<"S", "e", "p">>, <<"O", "c", "t">>, <<"N", "o", "v">>, <<"D", "e", "c">>>>
MonthDays == <<31, 28, 31, 30, 31, 30, 31, 31, 30, 31, 30, 31>>
MinutesPerHour == 60
MinutesPerDay == 1440
MinutesPerWeek == 10080

RECURSIVE MonthDay(_, _)
\* The month and the day of the month of day d counted from the first of month m
MonthDay(d, m) ==
    IF d < MonthDays[m] THEN [month |-> m, day |-> d + 1]
    ELSE MonthDay(d - MonthDays[m], (m % 12) + 1)

\* time.Format("Jan 2") of a clock that counts minutes from the first of January
FormatJan2(t) ==
    LET md == MonthDay(t \div MinutesPerDay, 1)
    IN  MonthNames[md.month] \o <<" ">> \o Itoa(md.day)

\* A formatTimeAgo whose ranges include their upper ends.
formatTimeAgo_Inclusive(t) ==
    LET duration == now - t
    IN  IF duration <= 1 THEN <<"j", "u", "s", "t", " ", "n", "o", "w">>
        ELSE IF duration <= MinutesPerHour THEN Itoa(duration) \o <<"m", " ", "a", "g", "o">>
        ELSE IF duration <= MinutesPerDay
        THEN Itoa(duration \div MinutesPerHour) \o <<"h", " ", "a", "g", "o">>
        ELSE IF duration <= MinutesPerWeek
        THEN Itoa(duration \div MinutesPerDay) \o <<"d", " ", "a", "g", "o">>
        ELSE FormatJan2(t)

\* formatTimeAgo(t), with the clock time.Since reads
formatTimeAgo(t) ==
    LET duration == now - t
    IN  IF duration < 1 THEN <<"j", "u", "s", "t", " ", "n", "o", "w">>
        ELSE IF duration < MinutesPerHour THEN Itoa(duration) \o <<"m", " ", "a", "g", "o">>
        ELSE IF duration < MinutesPerDay
        THEN Itoa(duration \div MinutesPerHour) \o <<"h", " ", "a", "g", "o">>
        ELSE IF duration < MinutesPerWeek
        THEN Itoa(duration \div MinutesPerDay) \o <<"d", " ", "a", "g", "o">>
        ELSE FormatJan2(t)

\* A truncate that keeps maxLen code points before the "...".
truncate_KeepsMaxLen(s, maxLen) ==
    IF Len(s) <= maxLen THEN s ELSE SubSeq(s, 1, maxLen) \o Ellipsis

\* truncate(s, maxLen)
truncate(s, maxLen) ==
    IF Len(s) <= maxLen THEN s ELSE SubSeq(s, 1, maxLen - 3) \o Ellipsis

ButtonTitleMax == 40

\* formatSessionButton(s)
formatSessionButton(s) ==
    truncate(s.Title, ButtonTitleMax) \o <<" ", "-", " ">> \o formatTimeAgo(s.UpdatedAt)

\* models.InlineKeyboardButton
Button(text, data) == [Text |-> text, CallbackData |-> data]

\* A keyboard whose previous-page button carries offset - sessionsPerPage as it is
buildSessionKeyboard_Unclamped(list, offset, hasPrev, hasNext, sessionsPerPage) ==
    LET prev == IF hasPrev
                THEN << <<Button(prevPageButtonText,
                                 PageCallbackData(offset - sessionsPerPage))>> >>
                ELSE <<>>
        rows == [i \in 1 .. Len(list) |->
                    <<Button(formatSessionButton(list[i]), OpenCallbackData(list[i].ID))>>]
        next == IF hasNext
                THEN << <<Button(nextPageButtonText,
                                 PageCallbackData(offset + sessionsPerPage))>> >>
                ELSE <<>>
    IN  prev \o rows \o next

\* buildSessionKeyboard(sessions, offset, hasPrev, hasNext, sessionsPerPage):
\* the rows of the keyboard for the sessions of list
buildSessionKeyboard(list, offset, hasPrev, hasNext, sessionsPerPage) ==
    LET prevOffset == IF offset - sessionsPerPage < 0 THEN 0
                      ELSE offset - sessionsPerPage
        prev == IF hasPrev
                THEN << <<Button(prevPageButtonText, PageCallbackData(prevOffset))>> >>
                ELSE <<>>
        rows == [i \in 1 .. Len(list) |->
                    <<Button(formatSessionButton(list[i]),
                             OpenCallbackData(list[i].ID))>>]
        next == IF hasNext
                THEN << <<Button(nextPageButtonText,
                                 PageCallbackData(offset + sessionsPerPage))>> >>
                ELSE <<>>
    IN  prev \o rows \o next

\* ------------------------------------------------------------- handlers
ErrResponseNotFound ==
    [Message |-> <<"S", "e", "s", "s", "i", "o", "n", " ", "n", "o", "t", " ", "f", "o", "u", "n", "d", ".", " ", "I", "t", " ", "m", "a", "y", " ", "h", "a", "v", "e", " ", "b", "e", "e", "n", " ", "d", "e", "l", "e", "t", "e", "d", ".">>,
     Code |-> "SESSION_NOT_FOUND"]
ErrResponseUnauthorized ==
    [Message |-> <<"Y", "o", "u", " ", "d", "o", "n", "'", "t", " ", "h", "a", "v", "e", " ", "p", "e", "r", "m", "i", "s", "s", "i", "o", "n", " ", "t", "o", " ", "a", "c", "c", "e", "s", "s", " ", "t", "h", "i", "s", " ", "s", "e", "s", "s", "i", "o", "n", ".">>,
     Code |-> "UNAUTHORIZED"]
ErrResponseGeneric ==
    [Message |-> <<"A", "n", " ", "e", "r", "r", "o", "r", " ", "o", "c", "c", "u", "r", "r", "e", "d", ".", " ", "P", "l", "e", "a", "s", "e", " ", "t", "r", "y", " ", "a", "g", "a", "i", "n", ".">>,
     Code |-> "INTERNAL_ERROR"]
ErrResponseInvalidCallback == [Message |-> <<>>, Code |-> "INVALID_CALLBACK"]

\* The calls of the Bot API
AnswerCallbackQuery == [method |-> "answerCallbackQuery", Text |-> <<>>, ReplyMarkup |-> <<>>]
SendMessage(text, markup) == [method |-> "sendMessage", Text |-> text, ReplyMarkup |-> markup]
EditMessageReplyMarkup(markup) ==
    [method |-> "editMessageReplyMarkup", Text |-> <<>>, ReplyMarkup |-> markup]

\* SendErrorResponse(ctx, b, chatID, err): the calls it makes
SendErrorResponse(err) ==
    LET response == IF Is(err, ErrSessionNotFound) THEN ErrResponseNotFound
                    ELSE IF Is(err, ErrUnauthorized) THEN ErrResponseUnauthorized
                    ELSE ErrResponseGeneric
    IN  IF response.Message # <<>> THEN <<SendMessage(response.Message, <<>>)>> ELSE <<>>

\* The calls of the Bot API a handler makes for an update whose Manager call
\* came back with the frame f; a frame of no Manager call is an update the
\* handler gave up before calling.
Sends(f) ==
    CASE f.handler = "OpenCommandHandler" ->
            IF f.err # OK THEN SendErrorResponse(f.err)
            ELSE <<SendMessage(<<"O", "p", "e", "n", "e", "d", " ", "n", "e", "w", " ", "s", "e", "s", "s", "i", "o", "n", ":", " ">> \o f.session.Title, <<>>)>>
      [] f.handler = "CloseCommandHandler" ->
            IF f.err # OK THEN SendErrorResponse(f.err)
            ELSE IF ~f.closed
            THEN <<SendMessage(<<"N", "o", " ", "a", "c", "t", "i", "v", "e", " ", "s", "e", "s", "s", "i", "o", "n", " ", "t", "o", " ", "c", "l", "o", "s", "e", ".", " ", "U", "s", "e", " ", "/", "o", "p", "e", "n", " ", "t", "o", " ", "s", "t", "a", "r", "t", " ", "o", "n", "e", ".">>, <<>>)>>
            ELSE <<SendMessage(<<"C", "l", "o", "s", "e", "d", " ", "s", "e", "s", "s", "i", "o", "n", ":", " ">> \o f.session.Title, <<>>)>>
      [] f.handler = "SessionsCommandHandler" ->
            IF f.err # OK THEN SendErrorResponse(f.err)
            ELSE IF Len(f.sessions) = 0
            THEN <<SendMessage(<<"Y", "o", "u", " ", "d", "o", "n", "'", "t", " ", "h", "a", "v", "e", " ", "a", "n", "y", " ", "s", "e", "s", "s", "i", "o", "n", "s", " ", "y", "e", "t", ".", " ", "S", "t", "a", "r", "t", " ", "c", "h", "a", "t", "t", "i", "n", "g", " ", "t", "o", " ", "c", "r", "e", "a", "t", "e", " ", "o", "n", "e", "!">>, <<>>)>>
            ELSE <<SendMessage(<<"Y", "o", "u", "r", " ", "s", "e", "s", "s", "i", "o", "n", "s", ":">>,
                               buildSessionKeyboard(f.sessions, 0, FALSE, f.hasMore,
                                                    f.limit))>>
      [] f.handler = "MessageHandler" ->
            IF f.err # OK THEN SendErrorResponse(f.err)
            ELSE <<SendMessage(<<"M", "e", "s", "s", "a", "g", "e", " ", "r", "e", "c", "e", "i", "v", "e", "d", " ", "i", "n", " ", "s", "e", "s", "s", "i", "o", "n", ":", " ">> \o f.session.Title, <<>>)>>
      [] f.handler = "CallbackQueryHandler" -> <<AnswerCallbackQuery>>
      [] f.handler = "handleOpenSession" ->
            <<AnswerCallbackQuery>> \o
            (IF f.err # OK THEN SendErrorResponse(f.err)
             ELSE IF f.op = "none" THEN <<>>
             ELSE <<SendMessage(<<"S", "w", "i", "t", "c", "h", "e", "d", " ", "t", "o", " ", "s", "e", "s", "s", "i", "o", "n", ":", " ">> \o f.session.Title, <<>>)>>)
      [] f.handler = "handlePageSessions" ->
            <<AnswerCallbackQuery>> \o
            (IF f.err # OK \/ f.op = "none" THEN <<>>
             ELSE <<EditMessageReplyMarkup(
                        buildSessionKeyboard(f.sessions, f.offset, f.offset > 0,
                                             f.hasMore, f.limit))>>)
      [] OTHER -> <<>>

\* A failed Store call, or the result res of the call
MayFail(res) == {res, [res EXCEPT !.err = ErrStorage]}

\* The frame of the call op that the handler h makes
HandlerFrame(h, op, userID) == [Frame(op, userID) EXCEPT !.handler = h]

\* The handler h returns without calling the Manager.
GiveUp(p, h, userID, err) ==
    /\ Do(p, Outcome(Idle, [HandlerFrame(h, "none", userID) EXCEPT !.err = err]))
    /\ UNCHANGED <<sessions, active_sessions, nextId, now>>

\* OpenCommandHandler: sessionMgr.CreateSession(ctx, userID, "")
OpenCommandHandler(p, userID) ==
    /\ Ready(p)
    /\ LET f == HandlerFrame("OpenCommandHandler", "CreateSession", userID)
       IN  CreateSession_Create(p, f) \/ CreateSession_CreateFails(p, f)

\* CloseCommandHandler: sessionMgr.CloseActiveSession(ctx, userID)
CloseCommandHandler(p, userID) ==
    /\ Ready(p)
    /\ \E r \in MayFail(GetActiveSession(userID)) :
          Do(p, CloseActiveSessionAfterGet(
                   HandlerFrame("CloseCommandHandler", "CloseActiveSession", userID), r))
    /\ UNCHANGED <<sessions, active_sessions, nextId, now>>

\* SessionsCommandHandler: sessionMgr.ListSessions(ctx, userID, 0, cfg.SessionsPerPage)
SessionsCommandHandler(p, userID) ==
    /\ Ready(p)
    /\ \E r \in MayFail([err |-> OK, sessions |-> ListByUser(userID, 0, SessionsPerPage)]) :
          Do(p, ListSessionsAfterList(
                   [HandlerFrame("SessionsCommandHandler", "ListSessions", userID)
                       EXCEPT !.limit = SessionsPerPage], r))
    /\ UNCHANGED <<sessions, active_sessions, nextId, now>>

\* MessageHandler: sessionMgr.GetOrCreateActiveSession(ctx, userID, messageText)
MessageHandler(p, userID, messageText) ==
    /\ Ready(p)
    /\ \E r \in MayFail(GetActiveSession(userID)) :
          Do(p, GetOrCreateActiveSessionAfterGet(
                   [HandlerFrame("MessageHandler", "GetOrCreateActiveSession", userID)
                       EXCEPT !.message = messageText], r))
    /\ UNCHANGED <<sessions, active_sessions, nextId, now>>

\* handleOpenSession: uuid.Parse(data[7:]) and sessionMgr.SwitchSession.
\* msg: callback.Message.Message is not nil.
handleOpenSession(p, userID, data, msg) ==
    LET parsed == Parse(SubSeq(data, OpenPrefixLen + 1, Len(data)))
    IN  IF ~msg THEN GiveUp(p, "handleOpenSession", userID, OK)
        ELSE IF parsed.err # OK THEN GiveUp(p, "handleOpenSession", userID, parsed.err)
        ELSE /\ \E r \in MayFail(Get(parsed.id)) :
                   Do(p, SwitchSessionAfterGet(
                            [HandlerFrame("handleOpenSession", "SwitchSession", userID)
                                EXCEPT !.sessionID = parsed.id], r))
             /\ UNCHANGED <<sessions, active_sessions, nextId, now>>

\* handlePageSessions: strconv.Atoi(data[14:]) and sessionMgr.ListSessions
handlePageSessions(p, userID, data, msg, sessionsPerPage) ==
    LET parsed == Atoi(SubSeq(data, PagePrefixLen + 1, Len(data)))
    IN  IF ~msg THEN GiveUp(p, "handlePageSessions", userID, OK)
        ELSE IF Len(data) < PagePrefixLen \/ SubSeq(data, 1, PagePrefixLen) # PagePrefix
        THEN GiveUp(p, "handlePageSessions", userID, OK)
        ELSE IF parsed.err # OK THEN GiveUp(p, "handlePageSessions", userID, OK)
        ELSE IF parsed.n < 0 THEN GiveUp(p, "handlePageSessions", userID, OK)
        ELSE /\ \E r \in MayFail([err |-> OK,
                                  sessions |-> ListByUser(userID, parsed.n, sessionsPerPage)]) :
                   Do(p, ListSessionsAfterList(
                            [HandlerFrame("handlePageSessions", "ListSessions", userID)
                                EXCEPT !.offset = parsed.n, !.limit = sessionsPerPage], r))
             /\ UNCHANGED <<sessions, active_sessions, nextId, now>>

\* CallbackQueryHandler: the route by the prefix of callback.Data
CallbackQueryHandler(p, userID, data, msg) ==
    /\ Ready(p)
    /\ IF Len(data) >= OpenPrefixLen /\ SubSeq(data, 1, OpenPrefixLen) = OpenPrefix
       THEN handleOpenSession(p, userID, data, msg)
       ELSE IF Len(data) >= PagePrefixLen /\ SubSeq(data, 1, PagePrefixLen) = PagePrefix
       THEN handlePageSessions(p, userID, data, msg, SessionsPerPage)
       ELSE GiveUp(p, "CallbackQueryHandler", userID, OK)

\* Action strings no keyboard of the bot carries
ForeignCallbackData ==
    { <<>>,
      <<"o", "p", "e", "n", "_", "s">>,
      <<"m", "o", "r", "e", "_", "s", "e", "s", "s", "i", "o", "n", "s", "_", "1">>,
      <<"o", "p", "e", "n", "_", "s", "_">>,
      <<"o", "p", "e", "n", "_", "s", "_", "z", "z">>,
      <<"o", "p", "e", "n", "_", "s", "_", "g", "0", "0", "0", "0", "0", "0", "0", "-", "0", "0", "0", "0", "-", "4", "0", "0", "0", "-", "8", "0", "0", "0", "-", "0", "0", "0", "0", "0", "0", "0", "0", "0", "0", "0", "1">>,
      <<"o", "p", "e", "n", "_", "s", "_", "0", "0", "0", "0", "0", "0", "0", "0", "0", "0", "0", "0", "0", "-", "4", "0", "0", "0", "-", "8", "0", "0", "0", "-", "0", "0", "0", "0", "0", "0", "0", "0", "0", "0", "0", "1">>,
      <<"p", "a", "g", "e", "_", "s", "e", "s", "s", "i", "o", "n", "s", "_">>,
      <<"p", "a", "g", "e", "_", "s", "e", "s", "s", "i", "o", "n", "s", "_", "x">>,
      <<"p", "a", "g", "e", "_", "s", "e", "s", "s", "i", "o", "n", "s", "_", "-", "1">>,
      <<"p", "a", "g", "e", "_", "s", "e", "s", "s", "i", "o", "n", "s", "_", "1", "x">>,
      <<"p", "a", "g", "e", "_", "s", "e", "s", "s", "i", "o", "n", "s", "_", " ", "1">>,
      <<"p", "a", "g", "e", "_", "s", "e", "s", "s", "i", "o", "n", "s", "_", "1", ".", "0">>,
      <<"p", "a", "g", "e", "_", "s", "e", "s", "s", "i", "o", "n", "s", "_", "9", "9", "9", "9", "9", "9", "9", "9", "9", "9", "9", "9", "9", "9", "9", "9", "9", "9", "9", "9">>,
      <<"p", "a", "g", "e", "_", "s", "e", "s", "s", "i", "o", "n", "s", "_", "+", "1">>,
      <<"p", "a", "g", "e", "_", "s", "e", "s", "s", "i", "o", "n", "s", "_", "-", "0">>,
      <<"p", "a", "g", "e", "_", "s", "e", "s", "s", "i", "o", "n", "s", "_", "0", "1">>,
      <<"o", "p", "e", "n", "_", "s", "_", "0", "0", "0", "0", "0", "0", "0", "0", "0", "0", "0", "0", "4", "0", "0", "0", "8", "0", "0", "0", "0", "0", "0", "0", "0", "0", "0", "0", "0", "0", "0", "1">>,
      <<"o", "p", "e", "n", "_", "s", "_", "u", "r", "n", ":", "u", "u", "i", "d", ":", "0", "0", "0", "0", "0", "0", "0", "0", "-", "0", "0", "0", "0", "-", "4", "0", "0", "0", "-", "8", "0", "0", "0", "-", "0", "0", "0", "0", "0", "0", "0", "0", "0", "0", "0", "1">>,
      <<"o", "p", "e", "n", "_", "s", "_", "{", "0", "0", "0", "0", "0", "0", "0", "0", "-", "0", "0", "0", "0", "-", "4", "0", "0", "0", "-", "8", "0", "0", "0", "-", "0", "0", "0", "0", "0", "0", "0", "0", "0", "0", "0", "1", "}">>,
      <<"o", "p", "e", "n", "_", "s", "_", "U", "R", "N", ":", "U", "U", "I", "D", ":", "0", "0", "0", "0", "0", "0", "0", "0", "-", "0", "0", "0", "0", "-", "4", "0", "0", "0", "-", "8", "0", "0", "0", "-", "0", "0", "0", "0", "0", "0", "0", "0", "0", "0", "0", "2">> }

\* The callback data of the updates: what the buttons of the bot carry, and
\* strings from elsewhere
CallbackData ==
    {OpenCallbackData(id) : id \in Ids \cup {UnknownId}}
        \cup {PageCallbackData(offset) : offset \in Offsets}
        \cup ForeignCallbackData

\* The handlers of the bot and the steps of the Manager calls they make, over
\* a Store whose calls may fail.
NextHandlers ==
    \/ \E p \in Procs, u \in Users :
          \/ OpenCommandHandler(p, u)
          \/ CloseCommandHandler(p, u)
          \/ SessionsCommandHandler(p, u)
          \/ \E m \in Messages : MessageHandler(p, u, m)
          \/ \E data \in CallbackData, msg \in BOOLEAN : CallbackQueryHandler(p, u, data, msg)
    \/ \E p \in Procs :
          \/ ListSessions_Count(p)
          \/ SwitchSession_SetActive(p)
          \/ CreateSession_SetActive(p)
          \/ GetOrCreateActiveSession_Create(p)
          \/ CloseActiveSession_Clear(p)
          \/ StepFails(p)

\* A test of the handlers: one update at a time, the calls of the Bot API
\* observed.
SpecHandlers == InitTest /\ [][NextHandlers]_vars

\* ------------------------------------------------------------- keyboard tests
\* The keyboard tests call buildSessionKeyboard on Session values they build
\* themselves, with an offset, flags and a page size of their choice; a click
\* on a button of the keyboard comes back as a callback query.
DefaultSessionsPerPage == 6

KeyboardOffsets == {0, 1, SessionsPerPage, LargeOffset - 1, LargeOffset}
PageSizes == {1, SessionsPerPage, DefaultSessionsPerPage, LargePageSize}

KeyboardSessions ==
    {NewSession(id, 1, <<>>, 0) : id \in Ids \cup {UnknownId}}

\* Lists of sessions with different ids
KeyboardLists ==
    {list \in UNION {[1 .. n -> KeyboardSessions] : n \in 0 .. MaxSessions} :
        \A i, j \in 1 .. Len(list) : i # j => list[i].ID # list[j].ID}

\* keyboard := buildSessionKeyboard(list, offset, hasPrev, hasNext, sessionsPerPage)
BuildSessionKeyboard(p, list, offset, hasPrev, hasNext, sessionsPerPage) ==
    /\ Ready(p) /\ driver = Test /\ ret = NoCall
    /\ ret' = [Frame("buildSessionKeyboard", 0) EXCEPT
                  !.sessions = list, !.offset = offset, !.limit = sessionsPerPage,
                  !.hasPrev = hasPrev, !.hasMore = hasNext,
                  !.keyboard = buildSessionKeyboard(list, offset, hasPrev, hasNext,
                                                    sessionsPerPage)]
    /\ UNCHANGED <<sessions, active_sessions, nextId, now, pc, call, driver>>

\* The user clicks the button of row i of the keyboard.
Click(p, userID, i) ==
    /\ ret.op = "buildSessionKeyboard"
    /\ i \in 1 .. Len(ret.keyboard)
    /\ CallbackQueryHandler(p, userID, ret.keyboard[i][1].CallbackData, TRUE)

NextKeyboard ==
    \/ /\ ret = NoCall
       /\ \E p \in Procs, list \in KeyboardLists, offset \in KeyboardOffsets,
             hasPrev \in BOOLEAN, hasNext \in BOOLEAN, sessionsPerPage \in PageSizes :
             BuildSessionKeyboard(p, list, offset, hasPrev, hasNext, sessionsPerPage)
    \/ \E p \in Procs, u \in Users, i \in 1 .. MaxSessions + 2 : Click(p, u, i)
    \/ \E p \in Procs : ListSessions_Count(p) \/ ListSessions_CountFails(p)

\* A keyboard test: one keyboard built, one of its buttons clicked.
SpecKeyboard == InitTest /\ [][NextKeyboard]_vars

\* ------------------------------------------------------------- Store tests
\* The Store methods as the tests of the store call them: one call at a
\* time, on goroutine 1, with the Session values a caller can build.

\* A Session a caller hands to Update: any of its fields may be changed.
CallerSessions ==
    {[ID |-> id, UserID |-> u, Title |-> generateTitle(m, c),
      CreatedAt |-> c, UpdatedAt |-> t, LastMessage |-> m] :
        id \in Ids \cup {UnknownId}, u \in Users, m \in Messages,
        c \in {0}, t \in Times}

\* store.Create(ctx, NewSession(userID, message)), or again with a stored id
StoreCreate(p, id, userID, message) ==
    /\ Ready(p) /\ driver = Test
    /\ id \in DOMAIN sessions \/ (id = nextId /\ nextId <= MaxSessions)
    /\ \E t \in now .. MaxTime :
          LET session == NewSession(id, userID, message, t)
              r == Create(session)
          IN  /\ now' = t
              /\ sessions' = r.sessions
              /\ Do(p, Outcome(Idle, [Frame("Create", userID) EXCEPT
                                         !.sessionID = id, !.message = message,
                                         !.err = r.err]))
    /\ nextId' = IF id = nextId THEN nextId + 1 ELSE nextId
    /\ UNCHANGED active_sessions

\* store.Get(ctx, id)
StoreGet(p, id) ==
    /\ Ready(p) /\ driver = Test
    /\ LET r == Get(id)
       IN  Do(p, Outcome(Idle, [Frame("Get", 0) EXCEPT
                                   !.sessionID = id, !.err = r.err,
                                   !.session = r.session]))
    /\ UNCHANGED <<sessions, active_sessions, nextId, now>>

\* store.Update(ctx, session)
StoreUpdate(p, session) ==
    /\ Ready(p) /\ driver = Test
    /\ LET r == Update(session)
       IN  /\ sessions' = r.sessions
           /\ Do(p, Outcome(Idle, [Frame("Update", session.UserID) EXCEPT
                                      !.sessionID = session.ID, !.err = r.err]))
    /\ UNCHANGED <<active_sessions, nextId, now>>

\* store.Delete(ctx, id)
StoreDelete(p, id) ==
    /\ Ready(p) /\ driver = Test
    /\ LET r == Delete(id)
       IN  /\ sessions' = r.sessions
           /\ active_sessions' = r.active_sessions
           /\ Do(p, Outcome(Idle, [Frame("Delete", 0) EXCEPT
                                      !.sessionID = id, !.err = r.err]))
    /\ UNCHANGED <<nextId, now>>

\* store.ListByUser(ctx, userID, offset, limit)
StoreListByUser(p, userID, offset, limit) ==
    /\ Ready(p) /\ driver = Test
    /\ Do(p, Outcome(Idle, [Frame("ListByUser", userID) EXCEPT
                               !.offset = offset, !.limit = limit,
                               !.sessions = ListByUser(userID, offset, limit)]))
    /\ UNCHANGED <<sessions, active_sessions, nextId, now>>

\* store.GetActiveSession(ctx, userID)
StoreGetActiveSession(p, userID) ==
    /\ Ready(p) /\ driver = Test
    /\ LET r == GetActiveSession(userID)
       IN  Do(p, Outcome(Idle, [Frame("GetActiveSession", userID) EXCEPT
                                   !.err = r.err, !.session = r.session]))
    /\ UNCHANGED <<sessions, active_sessions, nextId, now>>

\* store.SetActiveSession(ctx, userID, sessionID)
StoreSetActiveSession(p, userID, sessionID) ==
    /\ Ready(p) /\ driver = Test
    /\ LET r == SetActiveSession(userID, sessionID)
       IN  /\ active_sessions' = r.active_sessions
           /\ Do(p, Outcome(Idle, [Frame("SetActiveSession", userID) EXCEPT
                                      !.sessionID = sessionID, !.err = r.err]))
    /\ UNCHANGED <<sessions, nextId, now>>

\* store.ClearActiveSession(ctx, userID)
StoreClearActiveSession(p, userID) ==
    /\ Ready(p) /\ driver = Test
    /\ LET r == ClearActiveSession(userID)
       IN  /\ active_sessions' = r.active_sessions
           /\ Do(p, Outcome(Idle, [Frame("ClearActiveSession", userID) EXCEPT
                                      !.err = r.err]))
    /\ UNCHANGED <<sessions, nextId, now>>

NextStore ==
    \E p \in Procs :
        \/ \E id \in Ids, u \in Users, m \in Messages : StoreCreate(p, id, u, m)
        \/ \E id \in Ids \cup {UnknownId} : StoreGet(p, id)
        \/ \E s \in CallerSessions : StoreUpdate(p, s)
        \/ \E id \in Ids \cup {UnknownId} : StoreDelete(p, id)
        \/ \E u \in Users, offset \in Offsets, limit \in Limits :
              StoreListByUser(p, u, offset, limit)
        \/ \E u \in Users : StoreGetActiveSession(p, u)
        \/ \E u \in Users, id \in Ids \cup {UnknownId} : StoreSetActiveSession(p, u, id)
        \/ \E u \in Users : StoreClearActiveSession(p, u)

\* The tests of the store: Store methods called directly, one at a time.
SpecStore == InitTest /\ [][NextStore]_vars

\* The methods of the store that write the tables and read the active session
NextStoreActive ==
    \E p \in Procs :
        \/ \E id \in Ids, u \in Users : StoreCreate(p, id, u, <<>>)
        \/ \E id \in Ids \cup {UnknownId} : StoreDelete(p, id)
        \/ \E u \in Users : StoreGetActiveSession(p, u)
        \/ \E u \in Users, id \in Ids \cup {UnknownId} : StoreSetActiveSession(p, u, id)
        \/ \E u \in Users : StoreClearActiveSession(p, u)

\* The tests of the active session: TestSQLiteStore_ActiveSession, with
\* sessions deleted in between.
SpecStoreActive == InitTest /\ [][NextStoreActive]_vars

\* ------------------------------------------------------------- claims
\* The session id is stored and belongs to another user than userID.
Foreign(userID, id) == id \in DOMAIN sessions /\ sessions[id].UserID # userID
\* The session id is stored and belongs to userID.
Owned(userID, id) == id \in DOMAIN sessions /\ sessions[id].UserID = userID
\* The rows of active_sessions of a user.
PointerRows(userID) == {a \in active_sessions : a.user_id = userID}

\* C1: SwitchSession(U, id) for a stored session of another user returns
\* ErrUnauthorized and no session, in one step, and leaves the table
\* active_sessions, so U's pointer or its absence, as it was.
C1_SwitchForeignUnauthorized ==
    [][\A p \in Procs, u \in Users, id \in Ids :
          (Foreign(u, id) /\ SwitchSession(p, u, id)) =>
              /\ ret'.op = "SwitchSession"
              /\ ret'.err = ErrUnauthorized
              /\ ret'.session = NoSession
              /\ pc'[p] = Idle
              /\ ActivePointer(u)' = ActivePointer(u)
              /\ active_sessions' = active_sessions]_vars

\* A switch to a foreign session was refused while the user had a pointer
\* to a session of its own.
C1_Witness ==
    /\ ret.op = "SwitchSession"
    /\ ret.err = ErrUnauthorized
    /\ Foreign(ret.userID, ret.sessionID)
    /\ Owned(ret.userID, ActivePointer(ret.userID))

\* The session goroutine p would hand to its caller if its next step returned.
Held(p) == call[p].session

\* C2: under every interleaving of the Manager methods, each row of
\* active_sessions references a stored session of the row's user, and each
\* session a Manager method holds for, or returns to, user U belongs to U.
C2_OwnershipKept ==
    /\ \A a \in active_sessions : Owned(a.user_id, a.session_id)
    /\ \A p \in Procs :
          /\ Held(p) # NoSession => Held(p).UserID = call[p].userID
          /\ \A i \in 1 .. Len(call[p].sessions) :
                call[p].sessions[i].UserID = call[p].userID
    /\ \A u \in Users :
          /\ \A m \in Messages :
                LET o == GetOrCreateActiveSessionGet(u, m)
                IN  o.frame.session # NoSession => o.frame.session.UserID = u
          /\ \A id \in Ids \cup {UnknownId} :
                LET o == SwitchSessionGet(u, id)
                IN  o.frame.session # NoSession => o.frame.session.UserID = u
          /\ LET o == CloseActiveSessionGet(u)
             IN  o.frame.session # NoSession => o.frame.session.UserID = u

\* Both users have an active session while a switch of one of them is
\* between its ownership check and its write.
C2_Witness ==
    /\ \A u \in Users : ActivePointer(u) # 0
    /\ \E p \in Procs :
          /\ pc[p] = "SwitchSession_SetActive"
          /\ \E q \in Procs \ {p} : pc[q] # Idle /\ call[q].userID # call[p].userID

\* C3: SwitchSession(U, id) for a stored session of U returns that session
\* without error, and GetActiveSession(U) right after it gives the session
\* with that id.
C3_SwitchOwnActivates ==
    (ret.op = "SwitchSession" /\ Owned(ret.userID, ret.sessionID)) =>
        /\ ret.err = OK
        /\ ret.session = sessions[ret.sessionID]
        /\ GetActiveSession(ret.userID).err = OK
        /\ GetActiveSession(ret.userID).session.ID = ret.sessionID

\* A user switched to a session of its own while the other user has an
\* active session too.
C3_Witness ==
    /\ ret.op = "SwitchSession"
    /\ ret.err = OK
    /\ \E u \in Users \ {ret.userID} : ActivePointer(u) # 0

\* C4: whatever sessions the users have created so far and in whatever
\* order, every row of every page ListByUser(U, offset, limit) belongs to U.
C4_ListOnlyOwn ==
    \A u \in Users, offset \in Offsets, limit \in Limits :
        LET page == ListByUser(u, offset, limit)
        IN  \A i \in 1 .. Len(page) : page[i].UserID = u

\* A user has a session listed while the other user has inserted a session
\* of its own and not yet set its pointer.
C4_Witness ==
    \E u \in Users, p \in Procs :
        /\ Len(ListByUser(u, 0, MaxSessions)) >= 1
        /\ pc[p] = "CreateSession_SetActive"
        /\ call[p].userID # u
        /\ CountByUser(call[p].userID) >= 1

\* C5: with the tables unchanged during the call, ListSessions for a user
\* with N sessions returns min(limit, max(0, N - offset)) sessions and
\* hasMore = (offset + limit < N), for every offset and limit; so does the
\* call a test has just made.
C5_PageSizeAndHasMore ==
    /\ \A u \in Users, offset \in Offsets, limit \in Limits :
          LET N == Cardinality({id \in DOMAIN sessions : sessions[id].UserID = u})
              listed == ListSessionsList(u, offset, limit).frame
              result == ListSessionsCount(listed).frame
          IN  /\ Len(result.sessions) = Min(limit, Max(0, N - offset))
              /\ result.hasMore = (offset + limit < N)
              /\ result.err = OK
    /\ ret.op = "ListSessions" =>
          LET N == Cardinality({id \in DOMAIN sessions : sessions[id].UserID = ret.userID})
          IN  /\ Len(ret.sessions) = Min(ret.limit, Max(0, N - ret.offset))
              /\ ret.hasMore = (ret.offset + ret.limit < N)
              /\ ret.err = OK

\* A test got a full last page: the user has as many sessions as offset +
\* limit, and hasMore is false.
C5_Witness ==
    /\ ret.op = "ListSessions"
    /\ Len(ret.sessions) = ret.limit
    /\ CountByUser(ret.userID) = ret.offset + ret.limit
    /\ ~ret.hasMore
    /\ \E u \in Users : CountByUser(u) > SessionsPerPage

\* C6: GetOrCreateActiveSession for a user without pointer goes on to create
\* one session, new and owned by the user, sets the pointer to it and returns
\* it; for a user with a pointer it returns the pointed session, whatever
\* the message, and writes nothing.
C6_GetOrCreate ==
    [][\A p \in Procs :
          /\ \A u \in Users, m \in Messages :
                GetOrCreateActiveSession(p, u, m) =>
                    IF ActivePointer(u) = 0
                    THEN /\ pc'[p] = "CreateSession_Create"
                         /\ call'[p].userID = u /\ call'[p].message = m
                    ELSE /\ pc'[p] = Idle
                         /\ ret'.err = OK
                         /\ ret'.session = sessions[ActivePointer(u)]
                         /\ sessions' = sessions
                         /\ active_sessions' = active_sessions
          /\ GetOrCreateActiveSession_Create(p) =>
                /\ nextId \notin DOMAIN sessions
                /\ DOMAIN sessions' = DOMAIN sessions \cup {nextId}
                /\ \A id \in DOMAIN sessions : sessions'[id] = sessions[id]
                /\ sessions'[nextId].UserID = call[p].userID
                /\ pc'[p] = "CreateSession_SetActive"
                /\ call'[p].sessionID = nextId
          /\ \A u \in Users, id \in Ids :
                (/\ CreateSession_SetActive(p)
                 /\ call[p].op = "GetOrCreateActiveSession"
                 /\ call[p].userID = u /\ call[p].sessionID = id) =>
                    /\ sessions' = sessions
                    /\ ret'.err = OK
                    /\ ret'.session = sessions[id]
                    /\ ActivePointer(u)' = id
                    /\ pc'[p] = Idle]_vars

\* A second call with another message returned the session the first call
\* had created from the empty message.
C6_Witness ==
    /\ ret.op = "GetOrCreateActiveSession"
    /\ ret.err = OK
    /\ ret.message # <<>>
    /\ ret.session.LastMessage = <<>>
    /\ ActivePointer(ret.userID) = ret.session.ID

\* C7: CloseActiveSession for a user with an active session returns that
\* session and true and clears the pointer, so that GetActiveSession fails
\* with ErrSessionNotFound while Get still finds the session; for a user
\* without pointer it returns no session, false and no error; and
\* ClearActiveSession for a user without pointer succeeds and changes nothing.
C7_CloseActive ==
    /\ [][\A p \in Procs :
             /\ \A u \in Users :
                   CloseActiveSession(p, u) =>
                       IF ActivePointer(u) = 0
                       THEN /\ ret'.op = "CloseActiveSession"
                            /\ ret'.session = NoSession
                            /\ ret'.closed = FALSE
                            /\ ret'.err = OK
                            /\ active_sessions' = active_sessions
                       ELSE /\ pc'[p] = "CloseActiveSession_Clear"
                            /\ call'[p].session = sessions[ActivePointer(u)]
             /\ \A u \in Users, id \in Ids :
                   (/\ CloseActiveSession_Clear(p)
                    /\ call[p].userID = u /\ call[p].sessionID = id) =>
                       /\ ret'.session = call[p].session
                       /\ ret'.session.ID = id
                       /\ ret'.closed = TRUE
                       /\ ret'.err = OK
                       /\ GetActiveSession(u)'.err = ErrSessionNotFound
                       /\ Get(id)'.err = OK
                       /\ Get(id)'.session = ret'.session
                       /\ sessions' = sessions]_vars
    /\ [](\A u \in Users :
             ActivePointer(u) = 0 =>
                 /\ ClearActiveSession(u).err = OK
                 /\ ClearActiveSession(u).active_sessions = active_sessions)

\* A close returned the session it closed while the other user keeps an
\* active session.
C7_Witness ==
    /\ ret.op = "CloseActiveSession"
    /\ ret.closed
    /\ ret.session.ID \in DOMAIN sessions
    /\ ActivePointer(ret.userID) = 0
    /\ \E u \in Users : ActivePointer(u) # 0

\* C8: active_sessions has at most one row per user in every state; the
\* write of CreateSession and of SwitchSession leaves the user exactly one
\* row, which references the session created or chosen, and leaves the
\* session the pointer referenced before stored.
C8_OnePointerPerUser ==
    /\ [](\A u \in Users : Cardinality(PointerRows(u)) <= 1)
    /\ [][\A p \in Procs, u \in Users, id \in Ids :
             (/\ SwitchSession_SetActive(p) \/ CreateSession_SetActive(p)
              /\ call[p].userID = u /\ call[p].sessionID = id) =>
                 /\ PointerRows(u)' = {[user_id |-> u, session_id |-> id]}
                 /\ \A a \in PointerRows(u) : a.session_id \in DOMAIN sessions'
                 /\ \A v \in Users \ {u} : PointerRows(v)' = PointerRows(v)]_vars

\* A CreateSession with the empty message is about to overwrite the pointer
\* to another session of the user.
C8_Witness ==
    \E p \in Procs :
        /\ pc[p] = "CreateSession_SetActive"
        /\ call[p].op = "CreateSession"
        /\ call[p].message = <<>>
        /\ ActivePointer(call[p].userID) \notin {0, call[p].sessionID}

\* C9: a SwitchSession that has passed its ownership check is never refused
\* or held back, whatever the other goroutine does; its write succeeds, sets
\* the user's pointer to its own session and leaves the other call as it was:
\* of two concurrent switches both succeed and the later write decides.
C9_ConcurrentSwitch ==
    /\ [](\A p \in Procs :
             pc[p] = "SwitchSession_SetActive" =>
                 /\ ENABLED SwitchSession_SetActive(p)
                 /\ SetActiveSession(call[p].userID, call[p].sessionID).err = OK)
    /\ [][\A p \in Procs, u \in Users, id \in Ids :
             (/\ SwitchSession_SetActive(p)
              /\ call[p].userID = u /\ call[p].sessionID = id) =>
                 /\ pc'[p] = Idle
                 /\ ActivePointer(u)' = id
                 /\ \A q \in Procs \ {p} : pc'[q] = pc[q] /\ call'[q] = call[q]]_vars

\* Two switches of the same user to different sessions of the user have both
\* passed the ownership check and neither has written yet.
C9_Witness ==
    /\ \A p \in Procs : pc[p] = "SwitchSession_SetActive"
    /\ call[1].userID = call[2].userID
    /\ call[1].sessionID # call[2].sessionID

\* C10: the updatedAt that Get returns for a session never decreases from one
\* state to the next, whatever UpdatedAt the Update calls supply.
C10_UpdatedAtNeverDecreases ==
    [][\A id \in DOMAIN sessions \cap DOMAIN sessions' :
          Get(id)'.session.UpdatedAt >= Get(id).session.UpdatedAt]_vars

\* C11: every page ListByUser returns is sorted by updatedAt, latest first,
\* and after an Update of a stored session the first page of its owner
\* starts with that session.
C11_SortedAndUpdatedFirst ==
    /\ [](\A u \in Users, offset \in Offsets, limit \in Limits :
             LET page == ListByUser(u, offset, limit)
             IN  \A i \in 1 .. Len(page) - 1 :
                     page[i].UpdatedAt >= page[i + 1].UpdatedAt)
    /\ [][\A p \in Procs, s \in CallerSessions, u \in Users, limit \in Limits :
             (/\ StoreUpdate(p, s)
              /\ s.ID \in DOMAIN sessions
              /\ sessions[s.ID].UserID = u) =>
                 ListByUser(u, 0, limit)'[1].ID = s.ID]_vars

\* Concat of the rows of the pages 0 .. k of size limit
RECURSIVE PagesUpTo(_, _, _)
PagesUpTo(u, limit, k) ==
    IF k < 0 THEN <<>>
    ELSE PagesUpTo(u, limit, k - 1) \o ListByUser(u, k * limit, limit)

C15_DeleteClearsPointer ==
    /\ [][\A p \in Procs, id \in Ids :
             (StoreDelete(p, id) /\ id \in DOMAIN sessions) =>
                 /\ ret'.err = OK
                 /\ id \notin DOMAIN sessions'
                 /\ \A u \in Users :
                       ActivePointer(u) = id =>
                           GetActiveSession(u)'.err = ErrSessionNotFound
                 /\ \A a \in active_sessions' : a.session_id # id
                 /\ \A u \in Users :
                       ActivePointer(u) # id =>
                           GetActiveSession(u)' = GetActiveSession(u)]_vars
    /\ [](\A u \in Users :
             LET r == GetActiveSession(u)
             IN  r.err = OK =>
                     /\ r.session.ID \in DOMAIN sessions
                     /\ r.session = sessions[r.session.ID])

\* The session both users' pointers referenced has just been deleted while
\* another session remains stored.
C15_Witness ==
    /\ ret.op = "Delete"
    /\ ret.err = OK
    /\ ret.sessionID \notin DOMAIN sessions
    /\ DOMAIN sessions # {}
    /\ \A u \in Users : GetActiveSession(u).err = ErrSessionNotFound
    /\ active_sessions = {}

\* C13: when m.store.Create succeeds and m.store.SetActiveSession then
\* fails, CreateSession returns an error, the new session stays stored (it is
\* listed by ListByUser and counted by CountByUser for its owner), and the
\* owner's active pointer keeps the value it had: storing the session leaves
\* the pointer alone, and so does the failed call.
C13_CreateKeptWhenActivateFails ==
    [][\A p \in Procs, u \in Users, id \in Ids :
          /\ (\E m \in Messages : CreateSession(p, u, m))
                => ActivePointer(u)' = ActivePointer(u)
          /\ (/\ CreateSession_SetActiveFails(p)
              /\ call[p].userID = u /\ call[p].sessionID = id)
                => /\ ret'.err # OK /\ ret'.session = NoSession
                   /\ id \in DOMAIN sessions' /\ sessions'[id].UserID = u
                   /\ \E i \in 1 .. MaxSessions :
                         /\ i <= Len(ListByUser(u, 0, MaxSessions)')
                         /\ ListByUser(u, 0, MaxSessions)'[i].ID = id
                   /\ CountByUser(u)' = Len(ListByUser(u, 0, MaxSessions)')
                   /\ ActivePointer(u)' = ActivePointer(u)]_vars

\* CreateSession failed after storing its session while the owner had
\* another session active.
C13_Witness ==
    /\ ret.op = "CreateSession" /\ Is(ret.err, ErrStorage)
    /\ ret.sessionID \in DOMAIN sessions
    /\ ActivePointer(ret.userID) \notin {0, ret.sessionID}

\* C14: GetOrCreateActiveSession falls back to CreateSession on every failure
\* of GetActiveSession. When the lookup fails with a storage error while the
\* user's pointer is set, the call goes on to create: the tables are as they
\* were, then exactly one session is added, then the pointer is overwritten
\* with the id of that session and that session is returned.
C14_FallbackOnAnyFailure ==
    [][\A p \in Procs, u \in Users :
          /\ (\E m \in Messages : GetOrCreateActiveSession_GetFails(p, u, m))
                => /\ pc'[p] = "CreateSession_Create"
                   /\ UNCHANGED <<sessions, active_sessions>>
          /\ (/\ GetOrCreateActiveSession_Create(p)
              /\ call[p].userID = u /\ ActivePointer(u) # 0)
                => /\ pc'[p] = "CreateSession_SetActive"
                   /\ DOMAIN sessions' = DOMAIN sessions \cup {call'[p].sessionID}
                   /\ call'[p].sessionID \notin DOMAIN sessions
                   /\ sessions'[call'[p].sessionID].UserID = u
                   /\ UNCHANGED active_sessions
          /\ (/\ CreateSession_SetActive(p)
              /\ call[p].op = "GetOrCreateActiveSession" /\ call[p].userID = u)
                => /\ ret'.err = OK
                   /\ ret'.session = sessions[call[p].sessionID]
                   /\ ActivePointer(u)' = call[p].sessionID
                   /\ UNCHANGED sessions]_vars

\* The lookup failed while another session was active, and the fallback has
\* stored its new session.
C14_Witness ==
    /\ pc[1] = "CreateSession_SetActive"
    /\ call[1].op = "GetOrCreateActiveSession"
    /\ ActivePointer(call[1].userID) \notin {0, call[1].sessionID}

\* The offset a navigation button carries: the number after the tag
NavOffset(data) == Atoi(SubSeq(data, Len(PagePrefix) + 1, Len(data)))
IsNav(data) ==
    /\ Len(data) > Len(PagePrefix)
    /\ SubSeq(data, 1, Len(PagePrefix)) = PagePrefix
    /\ NavOffset(data).err = OK

MaxCallbackDataLen == 64

\* C20: every action string of a keyboard has at most 64 bytes (the
\* characters of the action strings are ASCII, one byte each): open_s_ and
\* the 36 characters of an id, or the navigation tag and the decimal digits
\* of an offset, for offsets from 0 up to 10,000,000 and every page size.
C20_CallbackDataFits ==
    ret.op = "buildSessionKeyboard" =>
        \A i \in 1 .. Len(ret.keyboard) :
            /\ Len(ret.keyboard[i][1].CallbackData) <= MaxCallbackDataLen
            /\ \/ Len(ret.keyboard[i][1].CallbackData) = Len(OpenPrefix) + UUIDLen
               \/ IsNav(ret.keyboard[i][1].CallbackData)

\* A keyboard with session buttons and both navigation buttons, built for
\* the largest offset and the largest page size.
C20_Witness ==
    /\ ret.op = "buildSessionKeyboard"
    /\ ret.offset = LargeOffset /\ ret.limit = LargePageSize
    /\ ret.hasPrev /\ ret.hasMore
    /\ Len(ret.sessions) > 0

\* C18: every action string buildSessionKeyboard puts on a button is accepted
\* by CallbackQueryHandler and decoded to the operation it encodes: a click on
\* the button of session S calls SwitchSession(user, S.id), and a click on a
\* navigation button for offset N calls ListSessions(user, N, pageSize); the
\* keyboard and the router use the same navigation tag.
C18_ButtonsDecode ==
    [][\A p \in Procs, u \in Users, i \in 1 .. MaxSessions + 2 :
          Click(p, u, i) =>
              LET a == IF ret.hasPrev THEN 1 ELSE 0
                  n == Len(ret.sessions)
                  f == IF pc'[p] = Idle THEN ret' ELSE call'[p]
              IN  /\ f.userID = u
                  /\ (a < i /\ i <= a + n) =>
                        /\ f.op = "SwitchSession"
                        /\ f.sessionID = ret.sessions[i - a].ID
                  /\ (i = 1 /\ ret.hasPrev) =>
                        /\ f.op = "ListSessions"
                        /\ f.offset = Max(0, ret.offset - ret.limit)
                        /\ f.limit = SessionsPerPage
                  /\ (i = a + n + 1) =>
                        /\ f.op = "ListSessions"
                        /\ f.offset = ret.offset + ret.limit
                        /\ f.limit = SessionsPerPage]_vars

\* A click on the next-page button of the keyboard for the largest offset
\* has listed the page of the offset on the button.
C18_Witness ==
    /\ ret.op = "ListSessions" /\ ret.handler = "handlePageSessions"
    /\ ret.err = OK /\ ret.offset = LargeOffset + LargePageSize

\* The texts of the messages a handler sends to the user for the frame f
TextsSent(f) ==
    {Sends(f)[i].Text : i \in {j \in 1 .. Len(Sends(f)) : Sends(f)[j].method = "sendMessage"}}

\* The calls that show the user something: a message or a changed keyboard
Shown(f) ==
    {i \in 1 .. Len(Sends(f)) : Sends(f)[i].method # "answerCallbackQuery"}

\* C16: the three error classes stay distinct from the Store to the user. A
\* Manager call of a handler that fails is ErrSessionNotFound or
\* ErrUnauthorized by its cause, wrapped or not, never both; SwitchSession on
\* an id that is not stored is never ErrUnauthorized, and is ErrUnauthorized
\* exactly for a stored session of another user; the user gets the not-found
\* text for the first, the permission text for the second, and the generic
\* try-again text for every other failure.
C16_ErrorClasses ==
    (ret.handler # "" /\ ret.op # "none" /\ ret.err # OK) =>
        /\ ~(Is(ret.err, ErrSessionNotFound) /\ Is(ret.err, ErrUnauthorized))
        /\ ret.op = "SwitchSession" =>
              /\ ret.sessionID \notin DOMAIN sessions =>
                    /\ ~Is(ret.err, ErrUnauthorized)
                    /\ Is(ret.err, ErrSessionNotFound) \/ Is(ret.err, ErrStorage)
              /\ Is(ret.err, ErrSessionNotFound) => ret.sessionID \notin DOMAIN sessions
              /\ Is(ret.err, ErrUnauthorized) =>
                    /\ ret.sessionID \in DOMAIN sessions
                    /\ sessions[ret.sessionID].UserID # ret.userID
        /\ TextsSent(ret) =
              {IF Is(ret.err, ErrSessionNotFound) THEN ErrResponseNotFound.Message
               ELSE IF Is(ret.err, ErrUnauthorized) THEN ErrResponseUnauthorized.Message
               ELSE ErrResponseGeneric.Message}

\* The action strings that fail to decode: an unknown tag, open_s_ with a
\* malformed id, the navigation tag with an offset that is no number or is
\* negative.
FailsToDecode(data) ==
    IF Len(data) >= Len(OpenPrefix) /\ SubSeq(data, 1, Len(OpenPrefix)) = OpenPrefix
    THEN Parse(SubSeq(data, Len(OpenPrefix) + 1, Len(data))).err # OK
    ELSE IF Len(data) >= Len(PagePrefix) /\ SubSeq(data, 1, Len(PagePrefix)) = PagePrefix
    THEN \/ NavOffset(data).err # OK
         \/ NavOffset(data).n < 0
    ELSE TRUE

\* C17: an action string that fails to decode is dropped: no Manager
\* operation is called, the tables stay as they are, and nothing is shown to
\* the user.
C17_UndecodableDropped ==
    [][\A p \in Procs, u \in Users, data \in CallbackData, msg \in BOOLEAN :
          (CallbackQueryHandler(p, u, data, msg) /\ FailsToDecode(data)) =>
              /\ pc'[p] = Idle /\ ret'.op = "none"
              /\ UNCHANGED <<sessions, active_sessions, nextId, now>>
              /\ Shown(ret') = {}]_vars

\* The Session values handed to Update when its fields are tampered with:
\* any id, any owner, any creation time, a new title and message, any
\* update time.
UpdateSessions ==
    {[NewSession(id, u, <<"h", "i">>, c) EXCEPT !.UpdatedAt = t] :
        id \in Ids \cup {UnknownId}, u \in Users, c \in Times, t \in Times}

\* Sessions created and updated
NextStoreUpdate ==
    \E p \in Procs :
        \/ \E id \in Ids, u \in Users : StoreCreate(p, id, u, <<>>)
        \/ \E s \in UpdateSessions : StoreUpdate(p, s)

\* The Update step of TestSQLiteStore_BasicOperations, repeated with any
\* Session value.
SpecStoreUpdate == InitTest /\ [][NextStoreUpdate]_vars

\* The column values Create binds for a session: the id as UUID.String()
Row(session) ==
    [id |-> UUIDString(session.ID), user_id |-> session.UserID,
     title |-> session.Title, created_at |-> session.CreatedAt,
     updated_at |-> session.UpdatedAt, last_message |-> session.LastMessage]

\* The Session that Get scans from a row: the id through uuid.Parse
Scan(row) ==
    LET parsed == Parse(row.id)
    IN  IF parsed.err # OK
        THEN [err |-> Wrap("failed to parse session ID", parsed.err),
              session |-> NoSession]
        ELSE [err |-> OK,
              session |-> [ID |-> parsed.id, UserID |-> row.user_id,
                           Title |-> row.title, CreatedAt |-> row.created_at,
                           UpdatedAt |-> row.updated_at,
                           LastMessage |-> row.last_message]]

\* First messages of white space only and with white space around them
RawMessages ==
    { <<" ">>, <<" ", "h", "i", "\n">> }

\* Sessions created from raw messages and read back
NextStoreRoundTrip ==
    \E p \in Procs :
        \/ \E id \in Ids, u \in Users, m \in RawMessages : StoreCreate(p, id, u, m)
        \/ \E id \in Ids \cup {UnknownId} : StoreGet(p, id)

\* The Create and Get steps of TestSQLiteStore_BasicOperations
SpecStoreRoundTrip == InitTest /\ [][NextStoreRoundTrip]_vars

\* The calls of TestSQLiteStore_BasicOperations and TestSQLiteStore_ErrorCases
NextStoreRows ==
    \E p \in Procs :
        \/ \E id \in Ids, u \in Users : StoreCreate(p, id, u, <<>>)
        \/ \E id \in Ids \cup {UnknownId} : StoreGet(p, id)
        \/ \E id \in Ids \cup {UnknownId}, u \in Users :
              StoreUpdate(p, NewSession(id, u, <<>>, now))
        \/ \E id \in Ids \cup {UnknownId} : StoreDelete(p, id)
        \/ \E u \in Users : StoreGetActiveSession(p, u)
        \/ \E u \in Users, id \in Ids \cup {UnknownId} : StoreSetActiveSession(p, u, id)

\* The tests of the rows of the store: sessions created, read, updated and
\* deleted by id, with and without a pointer to them.
SpecStoreRows == InitTest /\ [][NextStoreRows]_vars

\* ------------------------------------------------------------- title tests
MaxMessageLen == 34

Letters(n, c) == [i \in 1 .. n |-> c]

\* White space around a message and between its words
Paddings == { <<>>, <<"\n", "\t">>, <<LineSeparator>> }
Separators == { <<" ">>, <<"\r", "\n">>, <<" ", " ">>, <<"\f">> }

\* First messages: up to two words of one letter, of every length around
\* the limits, with white space around and between them.
TitleMessages ==
    {pre \o Letters(k, c) \o sep \o Letters(j, c) \o post :
        pre \in Paddings, post \in {<<>>, <<" ">>}, k \in 0 .. MaxMessageLen,
        j \in {0, 5}, sep \in Separators, c \in {"a", WideRune}}

\* session := NewSession(12345, tt.message)
NewSessionTitle(p, message) ==
    /\ Ready(p) /\ driver = Test
    /\ ret = NoCall
    /\ \E t \in now .. MaxTime :
          /\ now' = t
          /\ Do(p, Outcome(Idle, [Frame("NewSession", 1) EXCEPT
                                     !.sessionID = nextId, !.message = message,
                                     !.session = NewSession(nextId, 1, message, t)]))
    /\ nextId' = nextId + 1
    /\ UNCHANGED <<sessions, active_sessions>>

NextTitle ==
    /\ ret = NoCall
    /\ \E p \in Procs, message \in TitleMessages : NewSessionTitle(p, message)

\* TestSession_TitleGeneration: one session made from each message.
SpecTitle == InitTest /\ [][NextTitle]_vars

\* ------------------------------------------------------------- button text tests
MaxOver == 2

\* The elapsed minutes of the tests: a time just ahead of the clock, and
\* every minute up to a little over a week.
Elapsed == -1 .. MinutesPerWeek + MaxOver

\* The times of the sessions shown: the first of January, and the last day
\* of January so that a week later the date is in another month.
UpdateTimes == {0, 30 * MinutesPerDay + 1}

\* result := formatTimeAgo(now.Add(-d)), the clock read again by time.Since
FormatTimeAgo(p, t, d) ==
    /\ Ready(p) /\ driver = Test
    /\ ret = NoCall
    /\ t + d >= now
    /\ now' = t + d
    /\ Do(p, Outcome(Idle, [Frame("formatTimeAgo", 0) EXCEPT
                               !.time = t, !.text = formatTimeAgo(t)']))
    /\ UNCHANGED <<sessions, active_sessions, nextId>>

NextTimeAgo ==
    /\ ret = NoCall
    /\ \E p \in Procs, t \in UpdateTimes, d \in Elapsed : FormatTimeAgo(p, t, d)

\* TestFormatTimeAgo and TestFormatTimeAgoBoundaries
SpecTimeAgo == InitTest /\ [][NextTimeAgo]_vars

\* The strings and limits of the truncate tests: strings of one-byte and of
\* three-byte code points up to a little over the limit of a button title,
\* limits from 3 up to that limit.
TruncateInputs ==
    {Letters(k, c) \o Letters(j, "b") :
        k \in 0 .. ButtonTitleMax + MaxOver, j \in {0, 1}, c \in {"a", WideRune}}
TruncateLimits == 3 .. ButtonTitleMax

\* result := truncate(tt.input, tt.maxLen)
Truncate(p, s, maxLen) ==
    /\ Ready(p) /\ driver = Test
    /\ ret = NoCall
    /\ Do(p, Outcome(Idle, [Frame("truncate", 0) EXCEPT
                               !.message = s, !.maxLen = maxLen,
                               !.text = truncate(s, maxLen)]))
    /\ UNCHANGED <<sessions, active_sessions, nextId, now>>

NextTruncate ==
    /\ ret = NoCall
    /\ \E p \in Procs, s \in TruncateInputs, maxLen \in TruncateLimits :
          Truncate(p, s, maxLen)

\* TestTruncate
SpecTruncate == InitTest /\ [][NextTruncate]_vars

\* ------------------------------------------------------------- startup
\* The configuration, as far as Validate reads it: strings are sequences of
\* characters, "" is <<>>.
Default ==
    [Token |-> <<>>, DefaultStatus |-> 200,
     SessionsPerPage |-> DefaultSessionsPerPage,
     DatabasePath |-> <<".", "/", "d", "a", "t", "a", "/", "s", "e", "s", "s", "i", "o", "n", "s", ".", "d", "b">>]

ErrTokenRequired ==
    <<"bot token is required (set TELEGRAM_BOT_TOKEN or provide in config file)">>


\* c.loadFromFile(path): the keys of the JSON object replace the fields
loadFromFile(c, file) ==
    IF ~file.exists THEN [err |-> OK, cfg |-> c]
    ELSE IF ~file.readable THEN [err |-> <<"failed to read config file">>, cfg |-> c]
    ELSE [err |-> OK,
          cfg |-> [f \in DOMAIN c |->
                      IF f \in DOMAIN file.values THEN file.values[f] ELSE c[f]]]

\* c.loadFromEnv(): a variable that is set and not empty replaces the field;
\* a number that does not parse is ignored
loadFromEnv(c, env) ==
    LET status == Atoi(env.DEFAULT_STATUS)
        perPage == Atoi(env.SESSIONS_PER_PAGE)
    IN  [Token |-> IF env.TELEGRAM_BOT_TOKEN # <<>>
                   THEN env.TELEGRAM_BOT_TOKEN ELSE c.Token,
         DefaultStatus |-> IF env.DEFAULT_STATUS # <<>> /\ status.err = OK
                           THEN status.n ELSE c.DefaultStatus,
         SessionsPerPage |-> IF env.SESSIONS_PER_PAGE # <<>> /\ perPage.err = OK
                             THEN perPage.n ELSE c.SessionsPerPage,
         DatabasePath |-> IF env.DATABASE_PATH # <<>>
                          THEN env.DATABASE_PATH ELSE c.DatabasePath]

\* c.Validate()
Validate(c) ==
    IF c.Token = <<>> THEN ErrTokenRequired
    ELSE IF c.DefaultStatus < 100 \/ c.DefaultStatus > 599 THEN <<"default_status must be between 100 and 599">>
    ELSE IF c.SessionsPerPage < 1 THEN <<"sessions_per_page must be at least 1">>
    ELSE IF c.DatabasePath = <<>> THEN <<"database_path is required">>
    ELSE OK

\* config.Load(configPath): defaults, then the file, then the environment,
\* then Validate
Load(configPath, file, env) ==
    LET loaded == IF configPath # <<>> THEN loadFromFile(Default, file)
                  ELSE [err |-> OK, cfg |-> Default]
    IN  IF loaded.err # OK
        THEN [err |-> Wrap("failed to load config file", loaded.err), cfg |-> <<>>]
        ELSE LET cfg == loadFromEnv(loaded.cfg, env)
             IN  IF Validate(cfg) # OK
                 THEN [err |-> Wrap("invalid configuration", Validate(cfg)),
                       cfg |-> <<>>]
                 ELSE [err |-> OK, cfg |-> cfg]

\* The flags that are set replace the fields: "" and 0 mean not set
Override(c, flags) ==
    [Token |-> IF flags.token # <<>> THEN flags.token ELSE c.Token,
     DefaultStatus |-> IF flags.status # 0 THEN flags.status ELSE c.DefaultStatus,
     SessionsPerPage |-> IF flags.sessionsPerPage # 0
                         THEN flags.sessionsPerPage ELSE c.SessionsPerPage,
     DatabasePath |-> IF flags.db # <<>> THEN flags.db ELSE c.DatabasePath]

\* main is at "main_Override" after Load, at "exit" after log.Fatalf, and at
\* "initializeBot" when it calls initializeBot.

EnvToken == <<"1", ":", "e", "n", "v">>
FileToken == <<"2", ":", "f", "i", "l", "e">>
FlagToken == <<"3", ":", "f", "l", "a", "g">>

\* The config files, environments and command lines the bot is started with
Files ==
    { [exists |-> FALSE, readable |-> TRUE, values |-> <<>>],   \* no file: optional
      [exists |-> TRUE, readable |-> FALSE, values |-> <<>>],
      [exists |-> TRUE, readable |-> TRUE, values |-> [Token |-> FileToken]],
      [exists |-> TRUE, readable |-> TRUE,
       values |-> [Token |-> FileToken, DefaultStatus |-> 99]],
      [exists |-> TRUE, readable |-> TRUE, values |-> [DatabasePath |-> <<>>]] }
ConfigPaths == { <<>>, <<"c", "o", "n", "f", "i", "g", ".", "j", "s", "o", "n">> }
Environments ==
    [TELEGRAM_BOT_TOKEN : {<<>>, EnvToken},
     DEFAULT_STATUS : {<<>>, <<"4", "0", "4">>, <<"x">>},
     SESSIONS_PER_PAGE : {<<>>, <<"0">>},
     DATABASE_PATH : {<<>>}]
CommandLines ==
    [config : ConfigPaths, token : {<<>>, FlagToken}, status : {0, 200},
     sessionsPerPage : {0, SessionsPerPage}, db : {<<>>}]

\* main: flag.Parse() and config.Load(*configPath); log.Fatalf on an error
main(file, env, flags) ==
    /\ pc[1] = Idle /\ driver = Server
    /\ LET loaded == Load(flags.config, file, env)
           frame == [Frame("main", 0) EXCEPT
                        !.args = [file |-> file, env |-> env, flags |-> flags]]
       IN  IF loaded.err # OK
           THEN /\ pc' = [pc EXCEPT ![1] = "exit"]
                /\ call' = [call EXCEPT ![1] = [frame EXCEPT
                      !.err = Wrap("failed to load configuration", loaded.err)]]
           ELSE /\ pc' = [pc EXCEPT ![1] = "main_Override"]
                /\ call' = [call EXCEPT ![1] = [frame EXCEPT !.config = loaded.cfg]]
    /\ UNCHANGED <<sessions, active_sessions, nextId, now, driver, ret>>

\* main: the flags override the configuration, which is validated again
main_Override ==
    /\ pc[1] = "main_Override"
    /\ LET cfg == Override(call[1].config, call[1].args.flags)
       IN  IF Validate(cfg) # OK
           THEN /\ pc' = [pc EXCEPT ![1] = "exit"]
                /\ call' = [call EXCEPT ![1] = [@ EXCEPT
                      !.config = cfg,
                      !.err = Wrap("invalid configuration", Validate(cfg))]]
           ELSE /\ pc' = [pc EXCEPT ![1] = "initializeBot"]
                /\ call' = [call EXCEPT ![1] = [@ EXCEPT !.config = cfg]]
    /\ UNCHANGED <<sessions, active_sessions, nextId, now, driver, ret>>

NextMain ==
    \/ /\ pc[1] = Idle
       /\ \E file \in Files, env \in Environments, flags \in CommandLines :
             main(file, env, flags)
    \/ main_Override

\* The start of the bot, up to the call of initializeBot
SpecMain == Init /\ [][NextMain]_vars

\* C21: every stored session is stored under its own id, so no two stored
\* sessions share an id; a Create of a session whose id is already stored
\* returns an error that is neither nil nor ErrSessionNotFound, and leaves
\* the table sessions (the stored session with that id, every user's
\* session count) and the table active_sessions as they were.
C21_CreateDuplicateFails ==
    /\ [](\A id \in DOMAIN sessions : sessions[id].ID = id)
    /\ [][\A p \in Procs, id \in Ids, u \in Users :
             (id \in DOMAIN sessions /\ StoreCreate(p, id, u, <<>>)) =>
                 /\ ret'.op = "Create" /\ ret'.sessionID = id
                 /\ ret'.err # OK
                 /\ ~Is(ret'.err, ErrSessionNotFound)
                 /\ sessions'[id] = sessions[id]
                 /\ sessions' = sessions
                 /\ \A v \in Users : CountByUser(v)' = CountByUser(v)
                 /\ active_sessions' = active_sessions]_vars

\* A Create with a stored id of another user's session has failed while a
\* pointer references that session.
C21_Witness ==
    /\ ret.op = "Create" /\ ret.err # OK
    /\ ret.sessionID \in DOMAIN sessions
    /\ sessions[ret.sessionID].UserID # ret.userID
    /\ \E a \in active_sessions : a.session_id = ret.sessionID

\* C22: Get, Update and Delete with a session id that is not stored each
\* return exactly ErrSessionNotFound (Get with no session), and so does
\* GetActiveSession for a user who has no row in active_sessions; each of
\* these calls leaves the tables sessions and active_sessions as they were.
\* The call of a step is the one its returned frame names.
C22_MissingIsNotFound ==
    [][/\ (ret'.op \in {"Get", "Update", "Delete"}
            /\ ret'.sessionID \notin DOMAIN sessions) =>
               /\ ret'.err = ErrSessionNotFound
               /\ ret'.session = NoSession
               /\ UNCHANGED <<sessions, active_sessions>>
       /\ (ret'.op = "GetActiveSession" /\ PointerRows(ret'.userID) = {}) =>
               /\ ret'.err = ErrSessionNotFound
               /\ ret'.session = NoSession
               /\ UNCHANGED <<sessions, active_sessions>>]_vars

\* An Update of a session that is not stored has returned ErrSessionNotFound
\* while another session is stored and a pointer is set.
C22_Witness ==
    /\ ret.op = "Update" /\ ret.err = ErrSessionNotFound
    /\ ret.sessionID \notin DOMAIN sessions
    /\ sessions # <<>> /\ active_sessions # {}

\* C23: an Update leaves the set of stored ids and the id, the owner and
\* the creation time of every stored session as they were, whatever the
\* supplied Session carries in those fields, so every user's rows stay the
\* same rows; of the session it names it sets only title, updatedAt and
\* lastMessage, and it touches no other session and no pointer.
C23_UpdateKeepsIdentity ==
    [][ret'.op = "Update" =>
          /\ DOMAIN sessions' = DOMAIN sessions
          /\ \A id \in DOMAIN sessions :
                /\ sessions'[id].ID = sessions[id].ID
                /\ sessions'[id].UserID = sessions[id].UserID
                /\ sessions'[id].CreatedAt = sessions[id].CreatedAt
                /\ id # ret'.sessionID => sessions'[id] = sessions[id]
          /\ \A u \in Users : RowsOfUser(u)' = RowsOfUser(u)
          /\ active_sessions' = active_sessions]_vars

\* An Update with the Session of another owner has succeeded and has set
\* the title and the message: the session is still its owner's, created
\* after the time the supplied Session carried.
C23_Witness ==
    /\ ret.op = "Update" /\ ret.err = OK
    /\ ret.sessionID \in DOMAIN sessions
    /\ sessions[ret.sessionID].UserID # ret.userID
    /\ sessions[ret.sessionID].LastMessage = <<"h", "i">>
    /\ sessions[ret.sessionID].Title = <<"h", "i">>
    /\ sessions[ret.sessionID].CreatedAt > 0

\* C24: a successful Create of NewSession(owner, message) stores a session
\* with the id drawn, that owner, the generated title and the raw message as
\* lastMessage; a Get by a stored id succeeds, changes nothing and returns
\* the session scanned from the row that Create wrote, whose id, owner, title
\* and lastMessage are those of the stored session.
C24_CreateGetRoundTrip ==
    [][/\ (ret'.op = "Create" /\ ret'.err = OK) =>
              LET s == sessions'[ret'.sessionID]
              IN  /\ ret'.sessionID \notin DOMAIN sessions
                  /\ s.ID = ret'.sessionID
                  /\ s.UserID = ret'.userID
                  /\ s.Title = generateTitle(ret'.message, now')
                  /\ s.LastMessage = ret'.message
       /\ (ret'.op = "Get" /\ ret'.sessionID \in DOMAIN sessions) =>
              LET stored == sessions[ret'.sessionID]
                  scanned == Scan(Row(stored))
              IN  /\ ret'.err = OK /\ scanned.err = OK
                  /\ ret'.session.ID = ret'.sessionID
                  /\ \A f \in {"ID", "UserID", "Title", "LastMessage"} :
                        /\ ret'.session[f] = stored[f]
                        /\ ret'.session[f] = scanned.session[f]
                  /\ UNCHANGED <<sessions, active_sessions>>]_vars

\* A Get has returned a session whose lastMessage has white space around it
\* and whose title is the trimmed message.
C24_Witness ==
    /\ ret.op = "Get" /\ ret.err = OK
    /\ ret.session.LastMessage = <<" ", "h", "i", "\n">>
    /\ ret.session.Title = <<"h", "i">>
    /\ ret.session.UserID = 2
    /\ ret.session.ID = ret.sessionID

\* The positions of s that a title keeps: every character that is not white
\* space, and the first white space after such a character when another
\* such character follows.
Kept(s) ==
    {i \in 1 .. Len(s) :
        \/ ~IsSpace(s[i])
        \/ /\ i > 1 /\ ~IsSpace(s[i - 1])
           /\ \E j \in i + 1 .. Len(s) : ~IsSpace(s[j])}

RECURSIVE NormalizedFrom(_, _)
NormalizedFrom(s, i) ==
    IF i > Len(s) THEN <<>>
    ELSE IF i \in Kept(s)
    THEN <<IF IsSpace(s[i]) THEN " " ELSE s[i]>> \o NormalizedFrom(s, i + 1)
    ELSE NormalizedFrom(s, i + 1)

\* The normalized message: the kept characters, white space as one space.
Normalized(s) == NormalizedFrom(s, 1)

\* The length of a string in bytes of UTF-8.
RECURSIVE Bytes(_)
Bytes(s) ==
    IF s = <<>> THEN 0
    ELSE (IF Head(s) \in {WideRune, LineSeparator} THEN 3 ELSE 1) + Bytes(Tail(s))

C26_TitleClean ==
    ret.op = "NewSession" =>
        LET title == ret.session.Title
            n == Len(title)
        IN  /\ title # <<>>
            /\ \A i \in 1 .. n : title[i] \notin {"\n", "\r", "\f", LineSeparator}
            /\ ~IsSpace(title[1]) /\ ~IsSpace(title[n])
            /\ \A i \in 1 .. n - 1 : ~(IsSpace(title[i]) /\ IsSpace(title[i + 1]))
            /\ (\A i \in 1 .. Len(ret.message) : IsSpace(ret.message[i])) =>
                   /\ n > Len(NewSessionPrefix)
                   /\ SubSeq(title, 1, Len(NewSessionPrefix)) = NewSessionPrefix

\* A message with a line break before it and a carriage return and line
\* feed between its words got a title with one space between the words.
C26_Witness ==
    /\ ret.op = "NewSession"
    /\ ret.message[1] = "\n"
    /\ \E i \in 1 .. Len(ret.message) - 1 :
          ret.message[i] = "\r" /\ ret.message[i + 1] = "\n"
    /\ \E i \in 1 .. Len(ret.session.Title) : ret.session.Title[i] = " "
    /\ Len(ret.session.Title) = TitleMax

Ago(n, unit) == Itoa(n) \o <<unit, " ", "a", "g", "o">>

\* C27: with d the minutes elapsed since t, formatTimeAgo(t) is "just now"
\* for d < 1, Nm ago with N = d for 1 <= d < 60, Nh ago with N the whole
\* hours of d for 60 <= d < 1440, Nd ago with N the whole days of d for
\* 1440 <= d < 10080, and the month and day of t from 10080 on; N is in
\* 1..59, 1..23 and 1..6.
C27_TimeAgoRanges ==
    ret.op = "formatTimeAgo" =>
        LET d == now - ret.time
        IN  /\ d < 1 => ret.text = <<"j", "u", "s", "t", " ", "n", "o", "w">>
            /\ (1 <= d /\ d < 60) => d \in 1 .. 59 /\ ret.text = Ago(d, "m")
            /\ (60 <= d /\ d < 24 * 60) =>
                  \E n \in 1 .. 23 : /\ n * 60 <= d /\ d < (n + 1) * 60
                                     /\ ret.text = Ago(n, "h")
            /\ (24 * 60 <= d /\ d < 7 * 24 * 60) =>
                  \E n \in 1 .. 6 : /\ n * 24 * 60 <= d /\ d < (n + 1) * 24 * 60
                                    /\ ret.text = Ago(n, "d")
            /\ d >= 7 * 24 * 60 => ret.text = FormatJan2(ret.time)

\* A session updated on the last of January, seen exactly 24 hours later,
\* is shown as "1d ago".
C27_Witness ==
    /\ ret.op = "formatTimeAgo"
    /\ ret.time > 0
    /\ now - ret.time = 24 * 60
    /\ ret.text = <<"1", "d", " ", "a", "g", "o">>

\* C28: for maxLen >= 3, truncate(s, maxLen) is s when s has at most maxLen
\* code points, and otherwise the first maxLen - 3 code points of s followed
\* by "..."; the result has at most maxLen code points, whatever the number
\* of bytes.
C28_TruncateFits ==
    (ret.op = "truncate" /\ ret.maxLen >= 3) =>
        LET s == ret.message
            r == ret.text
            maxLen == ret.maxLen
        IN  /\ Len(s) <= maxLen => r = s
            /\ Len(s) > maxLen =>
                  /\ Len(r) = maxLen
                  /\ \A i \in 1 .. maxLen - 3 : r[i] = s[i]
                  /\ \A i \in maxLen - 2 .. maxLen : r[i] = "."
            /\ Len(r) <= maxLen

\* A string of more bytes than maxLen but no more code points came back
\* unchanged.
C28_Witness ==
    /\ ret.op = "truncate"
    /\ Len(ret.message) = ret.maxLen
    /\ Bytes(ret.message) > ret.maxLen
    /\ ret.text = ret.message

\* C29: a keyboard built with both a previous and a next page has one row
\* per session and then a single navigation row of two buttons, Prev with
\* page_sessions_<max(0, offset - pageSize)> and Next with
\* page_sessions_<offset + pageSize>: len(sessions) + 1 rows in all.
C29_SingleNavigationRow ==
    (ret.op = "buildSessionKeyboard" /\ ret.hasPrev /\ ret.hasMore) =>
        LET keyboard == ret.keyboard
            n == Len(ret.sessions)
        IN  /\ Len(keyboard) = n + 1
            /\ \A i \in 1 .. n :
                  /\ Len(keyboard[i]) = 1
                  /\ keyboard[i][1].CallbackData = OpenCallbackData(ret.sessions[i].ID)
            /\ keyboard[n + 1] =
                  << Button(prevPageButtonText,
                            PageCallbackData(Max(0, ret.offset - ret.limit))),
                     Button(nextPageButtonText,
                            PageCallbackData(ret.offset + ret.limit)) >>

\* The token the three sources give, the flag before the environment before
\* the file.
SuppliedToken(args) ==
    LET fileToken == IF args.flags.config # <<>> /\ args.file.exists
                        /\ args.file.readable /\ "Token" \in DOMAIN args.file.values
                     THEN args.file.values.Token ELSE <<>>
    IN  IF args.flags.token # <<>> THEN args.flags.token
        ELSE IF args.env.TELEGRAM_BOT_TOKEN # <<>> THEN args.env.TELEGRAM_BOT_TOKEN
        ELSE fileToken

\* C30: the token may come from the environment, the config file or the
\* -token flag, the flag first: main does not stop with "bot token is
\* required" when one of them supplies a token, in particular when only the
\* flag does, and it calls initializeBot with the token of the first source
\* that supplies one.
C30_FlagTokenStarts ==
    /\ (pc[1] = "exit" /\ SuppliedToken(call[1].args) # <<>>) =>
           ~Is(call[1].err, ErrTokenRequired)
    /\ pc[1] = "initializeBot" =>
           call[1].config.Token = SuppliedToken(call[1].args)

\* ------------------------------------------------------------- paging
\* Sessions created and pages listed, one call at a time
NextPages ==
    \/ \E p \in Procs, u \in Users :
          \/ CreateSession(p, u, <<>>)
          \/ \E offset \in Offsets, limit \in Limits : ListSessions(p, u, offset, limit)
    \/ \E p \in Procs :
          \/ CreateSession_SetActive(p)
          \/ ListSessions_Count(p)

\* TestManager_ListSessions: sessions created, then pages listed.
SpecPages == InitTest /\ [][NextPages]_vars

\* The frame ListSessions(u, offset, limit) returns on the tables as they are.
Page(u, offset, limit) ==
    ListSessionsCount(ListSessionsList(u, offset, limit).frame).frame

\* The offset handlePageSessions reads from the Next button of the keyboard
\* shown for the page f.
NextOffset(f) ==
    LET keyboard == buildSessionKeyboard(f.sessions, f.offset, f.offset > 0,
                                         f.hasMore, f.limit)
    IN  NavOffset(keyboard[Len(keyboard)][1].CallbackData).n

\* The pages shown from offset on by following Next, at most k of them.
RECURSIVE Walk(_, _, _, _)
Walk(u, limit, offset, k) ==
    IF k = 0 THEN <<>>
    ELSE LET f == Page(u, offset, limit)
         IN  IF f.hasMore THEN <<f>> \o Walk(u, limit, NextOffset(f), k - 1)
             ELSE <<f>>

NextNavigation ==
    \/ \E p \in Procs, u \in Users :
          \/ CreateSession(p, u, <<>>)
          \/ SessionsCommandHandler(p, u)
          \/ \E j \in 1 .. Len(Sends(ret)) :
                \E i \in 1 .. Len(Sends(ret)[j].ReplyMarkup) :
                   CallbackQueryHandler(p, u, Sends(ret)[j].ReplyMarkup[i][1].CallbackData,
                                        TRUE)
          \/ \E offset \in Offsets, sessionsPerPage \in Limits :
                /\ Ready(p)
                /\ handlePageSessions(p, u, PageCallbackData(offset), TRUE, sessionsPerPage)
    \/ \E p \in Procs :
          \/ CreateSession_SetActive(p)
          \/ SwitchSession_SetActive(p)
          \/ ListSessions_Count(p)

SpecNavigation == InitTest /\ [][NextNavigation]_vars

\* The keyboard the handler puts on screen for the frame f, <<>> when none
Rendered(f) ==
    LET shown == {i \in 1 .. Len(Sends(f)) : Sends(f)[i].ReplyMarkup # <<>>}
    IN  IF shown = {} THEN <<>> ELSE Sends(f)[CHOOSE i \in shown : TRUE].ReplyMarkup

HasPrev(keyboard) == keyboard # <<>> /\ keyboard[1][1].Text = prevPageButtonText
HasNext(keyboard) ==
    keyboard # <<>> /\ keyboard[Len(keyboard)][1].Text = nextPageButtonText

\* The frame handlePageSessions returns for a click on the Next button of
\* the keyboard, on the tables as they are
AfterNext(f, keyboard) ==
    [Page(f.userID, NavOffset(keyboard[Len(keyboard)][1].CallbackData).n, f.limit)
        EXCEPT !.handler = "handlePageSessions"]

\* C32: a page is rendered with a Prev button exactly when its offset is
\* greater than 0; the Prev button carries a navigation string with an offset
\* that is not negative; and from a page at a multiple of the page size, the
\* page its Next button leads to has a Prev button that carries the offset
\* of the first page.
C32_PrevAndNext ==
    LET keyboard == Rendered(ret)
    IN  keyboard # <<>> =>
          /\ HasPrev(keyboard) <=> ret.offset > 0
          /\ HasPrev(keyboard) =>
                /\ IsNav(keyboard[1][1].CallbackData)
                /\ NavOffset(keyboard[1][1].CallbackData).n >= 0
          /\ ret.handler = "handlePageSessions" =>
                ret = [Page(ret.userID, ret.offset, ret.limit)
                          EXCEPT !.handler = "handlePageSessions"]
          /\ (HasNext(keyboard) /\ ret.offset % ret.limit = 0) =>
                LET back == Rendered(AfterNext(ret, keyboard))
                IN  /\ HasPrev(back)
                    /\ NavOffset(back[1][1].CallbackData).n = ret.offset

\* The page after the first page is on screen, reached by its offset: it
\* shows a session under a Prev button that leads back to offset 0.
C32_Witness ==
    /\ ret.handler = "handlePageSessions" /\ ret.err = OK
    /\ ret.offset = ret.limit
    /\ ret.sessions # <<>>
    /\ HasPrev(Rendered(ret))
    /\ NavOffset(Rendered(ret)[1][1].CallbackData).n = 0

\* C33: the result a ListSessions call is about to return has hasMore only
\* with a full page, of exactly limit sessions, whatever the other goroutine
\* did between the call's list read and its count read.
C33_HasMoreMeansFullPage ==
    \A p \in Procs :
        pc[p] = "ListSessions_Count" =>
            LET f == ListSessionsCount(call[p]).frame
            IN  f.hasMore => Len(f.sessions) = f.limit

\* ------------------------------------------------------------- concurrent messages
\* Text messages handled at the same time: each goroutine makes one
\* GetOrCreateActiveSession call.
NextGetOrCreate ==
    \/ \E p \in Procs, u \in Users, m \in Messages : GetOrCreateActiveSession(p, u, m)
    \/ \E p \in Procs : GetOrCreateActiveSession_Create(p) \/ CreateSession_SetActive(p)

SpecGetOrCreate == InitWorkers /\ [][NextGetOrCreate]_vars

\* The goroutines that called for user u, and those of them that returned
CallsOf(u) == {p \in Procs : pc[p] # Idle /\ call[p].userID = u}
Returned(u) == {p \in CallsOf(u) : pc[p] = "done"}

\* C34: of the concurrent GetOrCreateActiveSession calls of a user who had
\* no active pointer (and no session), each returns without error a stored
\* session of that user; the calls create at most as many sessions as there
\* are calls; and once all have returned at least one session was created
\* and the user's pointer references a session one of the calls created and
\* returned.
C34_ConcurrentGetOrCreate ==
    \A u \in Users :
        /\ \A p \in Returned(u) :
              /\ call[p].err = OK
              /\ call[p].session # NoSession
              /\ call[p].session.UserID = u
              /\ call[p].session.ID \in RowsOfUser(u)
        /\ Cardinality(RowsOfUser(u)) <= Cardinality(CallsOf(u))
        /\ (CallsOf(u) # {} /\ Returned(u) = CallsOf(u)) =>
              /\ Cardinality(RowsOfUser(u)) >= 1
              /\ ActivePointer(u) \in RowsOfUser(u)
              /\ \E p \in Returned(u) : call[p].session.ID = ActivePointer(u)

\* Both goroutines called for one user and found no pointer: both have
\* returned, each with the session it created.
C34_Witness ==
    \E u \in Users :
        /\ Returned(u) = Procs
        /\ Cardinality(RowsOfUser(u)) = Cardinality(Procs)
        /\ call[1].session.ID # call[2].session.ID
        /\ ActivePointer(u) \in {call[1].session.ID, call[2].session.ID}

\* C35: a CloseActiveSession call that is about to clear the pointer of its
\* user and return (S, true) removes no pointer that references a session
\* other than S, whatever the other goroutine committed since the lookup.
C35_ClosedIsRemoved ==
    \A p \in Procs :
        pc[p] = "CloseActiveSession_Clear" =>
            ActivePointer(call[p].userID) \in {0, call[p].sessionID}

\* C36: a step of a Manager method changes table sessions only when it is
\* the m.store.Create of CreateSession, called directly or as the fallback of
\* GetOrCreateActiveSession, and then it adds exactly one session and leaves
\* every stored session as it was, field by field; the steps of
\* ListSessions, SwitchSession and CloseActiveSession, and
\* GetOrCreateActiveSession for a user whose pointer is set, which does not
\* reach the fallback, leave the table unchanged.
C36_OnlyCreateAddsOne ==
    [][/\ \A p \in Procs :
             (pc[p] = Idle /\ pc'[p] = "CreateSession_Create") =>
                 /\ call'[p].op = "GetOrCreateActiveSession"
                 /\ ActivePointer(call'[p].userID) = 0
       /\ sessions' # sessions =>
             \E p \in Procs :
                 /\ pc'[p] = "CreateSession_SetActive"
                 /\ \/ pc[p] = Idle /\ call'[p].op = "CreateSession"
                    \/ pc[p] = "CreateSession_Create"
                          /\ call[p].op = "GetOrCreateActiveSession"
                 /\ call'[p].sessionID \notin DOMAIN sessions
                 /\ DOMAIN sessions' = DOMAIN sessions \cup {call'[p].sessionID}
                 /\ sessions'[call'[p].sessionID].UserID = call'[p].userID
                 /\ \A id \in DOMAIN sessions : sessions'[id] = sessions[id]]_vars

\* The fallback of a GetOrCreateActiveSession call has created a session
\* beside a stored one.
C36_Witness ==
    \E p \in Procs :
        /\ pc[p] = "CreateSession_SetActive"
        /\ call[p].op = "GetOrCreateActiveSession"
        /\ DOMAIN sessions \ {call[p].sessionID} # {}

\* ------------------------------------------------------------- two users
\* Two users at the same time: goroutine p handles the updates of user p,
\* one after the other, while the other goroutine handles the other user's.
NextUsers ==
    \/ \E p \in Procs \cap Users :
          \/ \E offset \in Offsets : ListSessions(p, p, offset, SessionsPerPage)
          \/ \E id \in Ids \cup {UnknownId} : SwitchSession(p, p, id)
          \/ CreateSession(p, p, <<>>)
          \/ GetOrCreateActiveSession(p, p, <<>>)
          \/ CloseActiveSession(p, p)
    \/ \E p \in Procs :
          \/ ListSessions_Count(p)
          \/ SwitchSession_SetActive(p)
          \/ CreateSession_SetActive(p)
          \/ GetOrCreateActiveSession_Create(p)
          \/ CloseActiveSession_Clear(p)

SpecUsers == Init /\ [][NextUsers]_vars

\* What user b can observe: its pointer, its sessions field by field, its
\* count and its list in order, the result of each Manager call b can start
\* (with the buttons of b's keyboards, which carry b's session ids), and the
\* calls of b that are under way.
View(b) ==
    [pointer |-> PointerRows(b),
     rows |-> [id \in RowsOfUser(b) |-> sessions[id]],
     count |-> CountByUser(b),
     list |-> ListByUser(b, 0, MaxSessions),
     pages |-> [offset \in Offsets |-> ListSessionsList(b, offset, SessionsPerPage)],
     active |-> GetOrCreateActiveSessionGet(b, <<>>),
     close |-> CloseActiveSessionGet(b),
     switch |-> [id \in RowsOfUser(b) |-> SwitchSessionGet(b, id)],
     calls |-> [p \in {q \in Procs : call[q].userID = b} |-> <<pc[p], call[p]>>],
     counts |-> [p \in {q \in Procs : call[q].userID = b
                                       /\ pc[q] = "ListSessions_Count"} |->
                    ListSessionsCount(call[p])]]

\* C37: a step of a Manager call made for user a, in any interleaving with
\* the calls of the other users, leaves what every other user b observes as
\* it was: b's active pointer, b's sessions, list and count, the results of
\* b's next calls and b's calls under way; so b's results are those of the
\* run without a's calls.
C37_UsersIsolated ==
    [][\A p \in Procs :
          (pc'[p] # pc[p] \/ call'[p] # call[p]) =>
              \A b \in Users \ {IF pc[p] = Idle THEN call'[p].userID
                                ELSE call[p].userID} :
                  View(b)' = View(b)]_vars

\* A call of one user is under way between two Store calls while a user
\* with a session and a pointer has a call of its own under way.
C37_Witness ==
    \E p, q \in Procs :
        /\ pc[p] = "CloseActiveSession_Clear"
        /\ pc[q] # Idle
        /\ call[q].userID # call[p].userID
        /\ PointerRows(call[q].userID) # {}
        /\ CountByUser(call[q].userID) >= 1

\* C38: a Manager call made with a cancelled context changes neither table
\* in any of its steps and returns an error, with no session, no page and
\* nothing closed; only GetOrCreateActiveSession goes past its first Store
\* call, to the fallback CreateSession, whose m.store.Create fails under the
\* same context, so that no session is created.
C38_CancelledChangesNothing ==
    [][(ret'.ctx = "Canceled" \/ \E p \in Procs : call'[p].ctx = "Canceled") =>
          /\ sessions' = sessions
          /\ active_sessions' = active_sessions
          /\ ret'.ctx = "Canceled" =>
                /\ ret'.err # OK
                /\ ret'.session = NoSession
                /\ ret'.sessions = <<>>
                /\ ~ret'.closed
          /\ \A p \in Procs :
                call'[p].ctx = "Canceled" =>
                    /\ call'[p].op = "GetOrCreateActiveSession"
                    /\ pc'[p] = "CreateSession_Create"]_vars

\* GetOrCreateActiveSession has returned an error under a cancelled context
\* for a user with a stored session and no pointer, and no session was added
\* since the last one created.
C38_Witness ==
    /\ ret.ctx = "Canceled"
    /\ ret.op = "GetOrCreateActiveSession"
    /\ ret.err # OK
    /\ ActivePointer(ret.userID) = 0
    /\ CountByUser(ret.userID) >= 1

====
